---- MODULE Spec2Model ----
(***************************************************************************)
(* visit_struct: compile-time registration of a struct's fields and the   *)
(* visitation of the registered fields.  The model keeps the registration *)
(* sites of the test programs, the C++ type of every expression handed to *)
(* a visitor, and the storage an expression designates.                   *)
(***************************************************************************)
EXTENDS Integers, Sequences, FiniteSets, TLC

VARIABLES
  S,        \* the registered type the program works on
  mem,      \* storage: location -> value
  log,      \* the invocations the visitor object has recorded so far
  calls,    \* the visitation calls made on the visitor object; in a macro
            \* expansion: the macro call that is pending
  status,   \* "ok", or "ill_formed" when the last call does not compile
  phase,    \* struct body: "none", "open", "closed", "late", "ill_formed";
            \* a macro call: "none", "scanning", "expanded"
  ov,       \* declared overloads of Visit_Struct_Get_Visitables__: rank -> list
  members,  \* the members declared so far in the struct body
  RegList,  \* typedef Visit_Struct_Registered_Members_List__
  cmp,      \* result of the lexicographic comparison visitor; in a macro
            \* expansion: the scans that are left
  got       \* result of the last indexed query

vars == <<S, mem, log, calls, status, phase, ov, members, RegList, cmp, got>>

-----------------------------------------------------------------------------
(* Bounds of the model                                                     *)

MaxCalls == 2
MaxVal == 1
MaxDecls == 102
MaxFields == 3
MaxArgs == 366

-----------------------------------------------------------------------------
(* C++ types: a base type, its const qualifier and its reference kind      *)

Ty(base) == [base |-> base, const |-> FALSE, ref |-> "val"]
ConstTy(base) == [base |-> base, const |-> TRUE, ref |-> "val"]
LRefTy(base) == [base |-> base, const |-> FALSE, ref |-> "lref"]

IsRef(t) == t.ref # "val"
RemoveReference(t) == [t EXCEPT !.ref = "val"]
\* T& and T&& built from T; reference collapsing when T is a reference
AddLRef(t) == [t EXCEPT !.ref = "lref"]
AddRRef(t) == IF t.ref = "lref" THEN t ELSE [t EXCEPT !.ref = "rref"]
\* const applied to a reference type is ignored
AddConst(t) == IF IsRef(t) THEN t ELSE [t EXCEPT !.const = TRUE]

\* a qualified instance expression: value category and constness
Quals == {"lvalue", "const", "rvalue"}
ExprOf(q) ==
  [cat |-> IF q = "rvalue" THEN "xvalue" ELSE "lvalue", const |-> (q = "const")]

\* decltype((e)) of an expression of type t and category cat
DeclType(cat, t) == IF cat = "lvalue" THEN AddLRef(t) ELSE AddRRef(t)

\* the language's class member access e.m, m declared with type t
MemberAccess(e, t) ==
  IF IsRef(t) THEN [cat |-> "lvalue", type |-> RemoveReference(t)]
  ELSE [cat |-> e.cat, type |-> IF e.const THEN AddConst(t) ELSE t]
MemberAccessType(q, t) ==
  LET r == MemberAccess(ExprOf(q), t) IN DeclType(r.cat, r.type)

\* std::move(x) for x of declared type decltype((x)) = t
StdMove(t) == [RemoveReference(t) EXCEPT !.ref = "rref"]

-----------------------------------------------------------------------------
(* Intrusive strategy: TypeList, the Rank trick and the three macros       *)

\* TypeList<Ts...>::size
TypeListSize(list) == Len(list)
Append_t(list, t) == list \o <<t>>
Cdr(list) == Tail(list)

\* a lookup that ignores the index
FindHead(list, idx) == Head(list)

RECURSIVE Find(_, _)
Find(list, idx) == IF idx = 0 THEN Head(list) ELSE Find(Cdr(list), idx - 1)

max_visitable_members_intrusive == 100

\* decltype(Visit_Struct_Get_Visitables__(Rank<100>{})): Rank<100> converts to
\* Rank<r> exactly for r <= 100 and the most derived viable overload is chosen
ViableRanks(o) == {r \in DOMAIN o : r <= max_visitable_members_intrusive}
\* a resolution that prefers the conversion to the farthest base
LeastDerived(rs) == CHOOSE r \in rs : \A q \in rs : r <= q
MostDerived(rs) == CHOOSE r \in rs : \A q \in rs : q <= r
GetRegisteredMembers(o) == o[MostDerived(ViableRanks(o))]

\* struct Visit_Struct_Member_Record__NAME : member_ptr_helper<S, TYPE, &S::NAME>
MemberRecord(type, name) ==
  [name |-> name, ptr |-> name, value_type |-> type]

\* BEGIN_VISITABLES(NAME): the overload for Rank<0> returns TypeList<>
BeginOverloads == (0 :> <<>>)

\* VISITABLE(TYPE, NAME) declares the overload for Rank<size + 1>
VisitableRank(o) == TypeListSize(GetRegisteredMembers(o)) + 1
VisitableOverloads(o, type, name) ==
  o @@ (VisitableRank(o) :> Append_t(GetRegisteredMembers(o), MemberRecord(type, name)))

\* a second declaration of a function that takes the same Rank and returns
\* another type, a second member of the same name, and a pointer to a
\* reference member are all ill-formed
VisitableWellFormed(o, ms, type, name) ==
  /\ VisitableRank(o) \notin DOMAIN o
  /\ \A i \in 1..Len(ms) : ms[i].name # name
  /\ ~IsRef(type)

\* the registered list of a struct body BEGIN_VISITABLES, decls, END_VISITABLES
RECURSIVE DeclareAll(_, _)
DeclareAll(o, decls) ==
  IF decls = <<>> THEN o
  ELSE DeclareAll(VisitableOverloads(o, Head(decls).type, Head(decls).name), Tail(decls))
IntrusiveList(decls) == GetRegisteredMembers(DeclareAll(BeginOverloads, decls))

-----------------------------------------------------------------------------
(* The registration sites of the programs                                  *)

M(name, type) == [name |-> name, type |-> type]

StructDefs ==
  [ test_struct_one |->
      [strategy |-> "external",
       members |-> <<M("a", Ty("int")), M("b", Ty("float")), M("c", Ty("string"))>>,
       listed |-> <<"a", "b", "c">>],
    test_struct_two |->
      [strategy |-> "external",
       members |-> <<M("b", Ty("bool")), M("i", Ty("int")), M("d", Ty("double")),
                     M("s", Ty("string"))>>,
       listed |-> <<"d", "i", "b">>],
    foo |->
      [strategy |-> "intrusive",
       members |-> <<M("b", Ty("bool")), M("i", Ty("int")), M("f", Ty("float"))>>,
       listed |-> <<"b", "i", "f">>,
       begin |-> "foo"],
    fusion_one |->
      [strategy |-> "fusion",
       members |-> <<M("a", Ty("int")), M("b", Ty("float")), M("c", Ty("string"))>>,
       listed |-> <<"a", "b", "c">>],
    fusion_two |->
      [strategy |-> "fusion",
       members |-> <<M("b", Ty("bool")), M("i", Ty("int")), M("d", Ty("double")),
                     M("s", Ty("string"))>>,
       listed |-> <<"d", "i", "b">>],
    hana_one |->
      [strategy |-> "hana",
       members |-> <<M("a", Ty("int")), M("b", Ty("float")), M("c", Ty("string"))>>,
       listed |-> <<"a", "b", "c">>],
    hana_two |->
      [strategy |-> "hana",
       members |-> <<M("b", Ty("bool")), M("i", Ty("int")), M("d", Ty("double")),
                     M("s", Ty("string"))>>,
       listed |-> <<"d", "i", "b">>],
    hana_three |->
      [strategy |-> "hana",
       members |-> <<M("i1", Ty("int")), M("i2", ConstTy("int"))>>,
       listed |-> <<"i1", "i2">>] ]

\* structs with a const member and a reference member, one per strategy that
\* accepts them (a pointer to a reference member does not exist; hana_ref is a
\* hana Struct whose accessors are written by hand, not taken from pointers)
QualifiedStructs ==
  [ ext_ref |->
      [strategy |-> "external",
       members |-> <<M("v", Ty("int")), M("c", ConstTy("int")), M("r", LRefTy("int"))>>,
       listed |-> <<"v", "c", "r">>],
    fusion_ref |->
      [strategy |-> "fusion",
       members |-> <<M("v", Ty("int")), M("c", ConstTy("int")), M("r", LRefTy("int"))>>,
       listed |-> <<"v", "c", "r">>],
    foo_const |->
      [strategy |-> "intrusive",
       members |-> <<M("v", Ty("int")), M("c", ConstTy("int"))>>,
       listed |-> <<"v", "c">>,
       begin |-> "foo_const"],
    hana_ref |->
      [strategy |-> "hana",
       members |-> <<M("v", Ty("int")), M("c", ConstTy("int")), M("r", LRefTy("int"))>>,
       listed |-> <<"v", "c", "r">>] ]

\* struct E { BEGIN_VISITABLES(E); END_VISITABLES; }: no VISITABLE field
EmptyStructs ==
  [ intrusive_empty |->
      [strategy |-> "intrusive", members |-> <<>>, listed |-> <<>>,
       begin |-> "intrusive_empty"] ]

Defs == StructDefs @@ QualifiedStructs @@ EmptyStructs
Types == DOMAIN Defs

\* struct E {}; VISITABLE_STRUCT(E); a registration statement with no field
MalformedSites ==
  [ ext_empty |-> [strategy |-> "external", members |-> <<>>, listed |-> <<>>] ]

\* test_struct_one with its three members declared by the intrusive macros:
\* the same ordered list of (name, type) as the external, fusion and hana one
TwinSites ==
  [ intrusive_one |->
      [strategy |-> "intrusive",
       members |-> <<M("a", Ty("int")), M("b", Ty("float")), M("c", Ty("string"))>>,
       listed |-> <<"a", "b", "c">>] ]

\* registration statements that name a type another statement names too:
\* X has the intrusive markers in its body and a VISITABLE_STRUCT statement,
\* Y has the intrusive markers and a fusion adaptation, Z has a
\* VISITABLE_STRUCT statement and a fusion adaptation
DualSites ==
  [ X_intrusive |->
      [strategy |-> "intrusive",
       members |-> <<M("a", Ty("int")), M("b", Ty("int"))>>, listed |-> <<"a", "b">>],
    X_external |->
      [strategy |-> "external",
       members |-> <<M("a", Ty("int")), M("b", Ty("int"))>>, listed |-> <<"b">>],
    Y_intrusive |->
      [strategy |-> "intrusive",
       members |-> <<M("a", Ty("int")), M("b", Ty("int"))>>, listed |-> <<"a", "b">>],
    Y_fusion |->
      [strategy |-> "fusion",
       members |-> <<M("a", Ty("int")), M("b", Ty("int"))>>, listed |-> <<"b", "a">>],
    Z_external |->
      [strategy |-> "external",
       members |-> <<M("a", Ty("int")), M("b", Ty("int"))>>, listed |-> <<"a">>],
    Z_fusion |->
      [strategy |-> "fusion",
       members |-> <<M("a", Ty("int")), M("b", Ty("int"))>>, listed |-> <<"b", "a">>] ]

\* the statements that name each of these types
DualTypes ==
  [ X |-> {"X_intrusive", "X_external"},
    Y |-> {"Y_intrusive", "Y_fusion"},
    Z |-> {"Z_external", "Z_fusion"} ]

\* the structs of the size audit, and structs with a member that is left out
\* of the registration where the registered members leave padding
LayoutSites ==
  [ fv_foo |->
      [strategy |-> "external",
       members |-> <<M("a", Ty("int")), M("b", Ty("int")), M("c", Ty("int"))>>,
       listed |-> <<"a", "b", "c">>],
    fv_bar |->
      [strategy |-> "external",
       members |-> <<M("a", Ty("int")), M("b", Ty("int")), M("c", Ty("int"))>>,
       listed |-> <<"a", "b">>],
    fv_baz |->
      [strategy |-> "external",
       members |-> <<M("a", Ty("int")), M("b", Ty("char[7]")), M("c", Ty("short")),
                     M("d", Ty("char[157]"))>>,
       listed |-> <<"a", "b", "c", "d">>],
    fv_pad |->
      [strategy |-> "external",
       members |-> <<M("a", Ty("int")), M("b", Ty("char")), M("c", Ty("char"))>>,
       listed |-> <<"a", "b">>],
    fv_mid |->
      [strategy |-> "external",
       members |-> <<M("a", Ty("char")), M("b", Ty("int")), M("c", Ty("char"))>>,
       listed |-> <<"a", "c">>],
    fv_head |->
      [strategy |-> "external",
       members |-> <<M("a", Ty("char")), M("b", Ty("short")), M("c", Ty("int"))>>,
       listed |-> <<"b", "c">>] ]

\* every registration statement a program may contain
Sites == Defs @@ MalformedSites @@ TwinSites @@ DualSites @@ LayoutSites

Strategy(s) == Sites[s].strategy
Members(s) == Sites[s].members
Listed(s) == Sites[s].listed

\* the declared type of member m of struct s
DeclaredType(s, m) ==
  LET i == CHOOSE k \in 1..Len(Members(s)) : Members(s)[k].name = m
  IN Members(s)[i].type

\* the storage the expression x.m designates: the member itself, or the
\* referent of a reference member
Referent == <<"g", "x">>
Loc(s, obj, m) == IF IsRef(DeclaredType(s, m)) THEN Referent ELSE <<obj, m>>
Objects == {"a", "b"}
LocsOf(s) ==
  {Referent} \cup
  {<<o, Members(s)[k].name>> : o \in Objects, k \in 1..Len(Members(s))}

-----------------------------------------------------------------------------
(* What a visitor is called with                                           *)

NoLoc == <<>>
NoType == Ty("none")

\* a reference, of reference type type, bound to the storage at loc
RefArg(loc, type) == [kind |-> "ref", loc |-> loc, member |-> "", type |-> type]
\* visit_struct::type_c<type>
TypeArg(type) == [kind |-> "type_c", loc |-> NoLoc, member |-> "", type |-> type]
\* the pointer to member &S::member, of type T S::*
PtrArg(member, type) == [kind |-> "ptr", loc |-> NoLoc, member |-> member, type |-> type]
\* an accessor object for the member
AccArg(member, type) ==
  [kind |-> "accessor", loc |-> NoLoc, member |-> member, type |-> type]

\* the value read through a reference the visitor was handed
Deref(arg) == mem[arg.loc]
\* a visitor may assign through T& and T&&, never through a reference to const
Writable(arg) == arg.kind = "ref" /\ ~arg.type.const

Invoke(name, args) == [name |-> name, args |-> args]

-----------------------------------------------------------------------------
(* External strategy: VISITABLE_STRUCT(STRUCT_NAME, ...)                   *)

\* #MEMBER_NAME
Stringize(token) == token

\* __VA_ARGS__ of VISITABLE_STRUCT(S, ...): an empty list is one empty argument
VaArgs(listed) == IF listed = <<>> THEN <<"">> ELSE listed

\* VISIT_STRUCT_PP_MAP_EVAL0 .. VISIT_STRUCT_PP_MAP_EVAL: the number of times
\* each rescans its argument; a level invokes the level below three times,
\* nested, and its own replacement is rescanned once more
PP_MAP_EVAL0 == 1
PP_MAP_EVAL1 == 3 * PP_MAP_EVAL0 + 1
PP_MAP_EVAL2 == 3 * PP_MAP_EVAL1 + 1
PP_MAP_EVAL3 == 3 * PP_MAP_EVAL2 + 1
PP_MAP_EVAL4 == 3 * PP_MAP_EVAL3 + 1
PP_MAP_EVAL == 3 * PP_MAP_EVAL4 + 1

\* the pending call is expanded once when the argument of
\* VISIT_STRUCT_PP_MAP_EVAL is first scanned and once in each rescan
PP_MAP_SCANS == PP_MAP_EVAL + 1

\* VISIT_STRUCT_PP_MAP_NEXT(peek, next): the list ends at the () marker
PP_MAP_NEXT(peek, next) == IF peek = "()" THEN "VISIT_STRUCT_PP_MAP_END" ELSE next

\* one expansion of VISIT_STRUCT_PP_MAP0(f, x, peek, ...): f(x) and the call
\* that is pending after it
PP_MAP0(f, xs) ==
  [out |-> <<[macro |-> f, arg |-> xs[1]]>>,
   macro |-> PP_MAP_NEXT(xs[2], "VISIT_STRUCT_PP_MAP1"),
   args |-> Tail(xs)]
PP_MAP1(f, xs) ==
  [out |-> <<[macro |-> f, arg |-> xs[1]]>>,
   macro |-> PP_MAP_NEXT(xs[2], "VISIT_STRUCT_PP_MAP0"),
   args |-> Tail(xs)]
\* VISIT_STRUCT_PP_MAP_END(...) expands to nothing
PP_MAP_END(f, xs) == [out |-> <<>>, macro |-> "none", args |-> <<>>]

\* one scan expands the one pending call
PP_MAP_SCAN(macro, f, xs) ==
  CASE macro = "VISIT_STRUCT_PP_MAP0" -> PP_MAP0(f, xs)
    [] macro = "VISIT_STRUCT_PP_MAP1" -> PP_MAP1(f, xs)
    [] macro = "VISIT_STRUCT_PP_MAP_END" -> PP_MAP_END(f, xs)

\* a call that is pending when the scans are used up stays in the text
PP_MAP_LEFTOVER(macro, xs) ==
  IF macro = "none" THEN <<>> ELSE <<[macro |-> macro, arg |-> xs[1]]>>

RECURSIVE PP_MAP_RESCAN(_, _, _, _)
PP_MAP_RESCAN(macro, f, xs, scans) ==
  IF macro = "none" \/ scans = 0 THEN PP_MAP_LEFTOVER(macro, xs)
  ELSE LET e == PP_MAP_SCAN(macro, f, xs)
       IN  e.out \o PP_MAP_RESCAN(e.macro, f, e.args, scans - 1)

PP_MAP(f, args) ==
  PP_MAP_RESCAN("VISIT_STRUCT_PP_MAP1", f, args \o <<"()", "0">>, PP_MAP_SCANS)

\* which apply overload a qualified instance selects, and the macro it maps
ExternalHelper(q) ==
  IF q = "rvalue" THEN "VISIT_STRUCT_MEMBER_HELPER_MOVE"
  ELSE "VISIT_STRUCT_MEMBER_HELPER"

\* struct_instance is a named parameter: an lvalue, const in the second overload
StructInstance(q) == [cat |-> "lvalue", const |-> (q = "const")]

\* visitor(#MEMBER_NAME, struct_instance.MEMBER_NAME);
VISIT_STRUCT_MEMBER_HELPER(s, q, obj, token) ==
  LET e == MemberAccess(StructInstance(q), DeclaredType(s, token))
  IN Invoke(Stringize(token), <<RefArg(Loc(s, obj, token), DeclType(e.cat, e.type))>>)

\* visitor(#MEMBER_NAME, std::move(struct_instance.MEMBER_NAME));
VISIT_STRUCT_MEMBER_HELPER_MOVE(s, q, obj, token) ==
  LET e == MemberAccess(StructInstance(q), DeclaredType(s, token))
  IN Invoke(Stringize(token),
            <<RefArg(Loc(s, obj, token), StdMove(DeclType(e.cat, e.type)))>>)

ExpandHelper(s, q, obj, call) ==
  IF call.macro = "VISIT_STRUCT_MEMBER_HELPER_MOVE"
  THEN VISIT_STRUCT_MEMBER_HELPER_MOVE(s, q, obj, call.arg)
  ELSE VISIT_STRUCT_MEMBER_HELPER(s, q, obj, call.arg)

\* every mapped token has to name a member of the struct
ExternalWellFormed(s) ==
  LET calls_ == PP_MAP("VISIT_STRUCT_MEMBER_HELPER", VaArgs(Listed(s)))
  IN \A i \in 1..Len(calls_) :
       \E k \in 1..Len(Members(s)) : Members(s)[k].name = calls_[i].arg

\* an expansion over the members as declared in the struct
ExternalApplyDeclared(s, q, obj) ==
  [i \in 1..Len(Members(s)) |->
     ExpandHelper(s, q, obj, [macro |-> ExternalHelper(q), arg |-> Members(s)[i].name])]

\* traits::visitable<STRUCT_NAME>::apply(visitor, struct_instance)
ExternalApply(s, q, obj) ==
  LET calls_ == PP_MAP(ExternalHelper(q), VaArgs(Listed(s)))
  IN [i \in 1..Len(calls_) |-> ExpandHelper(s, q, obj, calls_[i])]

-----------------------------------------------------------------------------
(* Intrusive strategy: member_helper and structure_helper                  *)

\* a member access that loses the constness of the instance
PtrMemAccessNoConst(e, type) == [cat |-> e.cat, type |-> type]

\* std::forward<S>(structure_instance).*M::get_ptr()
PtrMemAccess(e, type) ==
  [cat |-> e.cat, type |-> IF e.const THEN AddConst(type) ELSE type]

\* member_helper<M>::apply_visitor(visitor, structure_instance)
MemberApply(s, m, q, obj) ==
  LET e == PtrMemAccess(ExprOf(q), m.value_type)
  IN Invoke(m.name, <<RefArg(Loc(s, obj, m.ptr), DeclType(e.cat, e.type))>>)

\* a pack expansion evaluated right to left
RECURSIVE StructureApplyReversed(_, _, _, _)
StructureApplyReversed(s, ms, q, obj) ==
  IF ms = <<>> THEN <<>>
  ELSE StructureApplyReversed(s, Cdr(ms), q, obj) \o <<MemberApply(s, Head(ms), q, obj)>>

\* structure_helper<TypeList<Ms...>>::apply_visitor: the pack expands left to right
RECURSIVE StructureApply(_, _, _, _)
StructureApply(s, ms, q, obj) ==
  IF ms = <<>> THEN <<>>
  ELSE <<MemberApply(s, Head(ms), q, obj)>> \o StructureApply(s, Cdr(ms), q, obj)

\* an array with one element per member and none besides
DummyInitializersNoSentinel(ms) == [i \in 1..Len(ms) |-> 0]

\* int dummy[] = {(member_helper<Ms>::f(...), 0)..., 0}: the initializers of
\* the array that sequences the calls, one per member and a last 0
DummyInitializers(ms) == [i \in 1..Len(ms) |-> 0] \o <<0>>

\* an array of no elements is ill-formed
StructureHelperWellFormed(ms) == Len(DummyInitializers(ms)) > 0

\* typename T::Visit_Struct_Registered_Members_List__
RegisteredMembersList(s) == IntrusiveList(Members(s))

IntrusiveApply(s, q, obj) == StructureApply(s, RegisteredMembersList(s), q, obj)

-----------------------------------------------------------------------------
(* Adaptation strategy: boost::fusion                                      *)

\* fusion::result_of::size<S>::value
FusionSize(s) == Len(Listed(s))
\* fusion::extension::struct_member_name<S, idx>::call()
FusionFieldName(s, idx) == Listed(s)[idx + 1]
\* fusion::result_of::value_at_c<S, idx>::type
FusionValueAt(s, idx) == DeclaredType(s, Listed(s)[idx + 1])
\* decltype(fusion::at_c<idx>(s)) for s an lvalue, const or not
FusionAtC(s, idx, isConst) ==
  AddLRef(IF isConst THEN AddConst(FusionValueAt(s, idx)) ELSE FusionValueAt(s, idx))

\* visitable<S>::accessor<idx>::operator(): the three overloads
FusionAccessor(s, idx, q) ==
  IF q = "rvalue" THEN StdMove(FusionAtC(s, idx, FALSE))
  ELSE FusionAtC(s, idx, q = "const")

\* fusion_visitor::operator()(Index)
FusionVisit(s, idx, q, obj) ==
  Invoke(FusionFieldName(s, idx),
         <<RefArg(Loc(s, obj, Listed(s)[idx + 1]), FusionAccessor(s, idx, q))>>)

\* an index range that stops one short
FusionApplyShort(s, q, obj) ==
  [i \in 1..(FusionSize(s) - 1) |-> FusionVisit(s, i - 1, q, obj)]

\* fusion::for_each(Indices(), fv), Indices = mpl::range_c<unsigned, 0, size>
FusionApply(s, q, obj) ==
  [i \in 1..FusionSize(s) |-> FusionVisit(s, i - 1, q, obj)]

-----------------------------------------------------------------------------
(* Adaptation strategy: boost::hana                                        *)

\* pairs for the members in the order the struct declares them
HanaAccessorsDeclared(s) ==
  [i \in 1..Len(Members(s)) |->
     [first |-> Members(s)[i].name, second |-> Members(s)[i].name]]

\* hana::accessors<S>(): the (name, accessor) pairs in the adapted order
HanaAccessors(s) ==
  [i \in 1..Len(Listed(s)) |-> [first |-> Listed(s)[i], second |-> Listed(s)[i]]]

\* the result type of a hana accessor for a member of type T:
\* S & -> T &, const S & -> const T &, S && -> T &&
HanaAccessorType(s, member, q) ==
  LET e == PtrMemAccess(ExprOf(q), DeclaredType(s, member))
  IN DeclType(e.cat, e.type)

HanaApply(s, q, obj) ==
  LET acc == HanaAccessors(s)
  IN [i \in 1..Len(acc) |->
        Invoke(acc[i].first,
               <<RefArg(Loc(s, obj, acc[i].second),
                        HanaAccessorType(s, acc[i].second, q))>>)]

-----------------------------------------------------------------------------
(* Two instances, no instance and indexed access, strategy by strategy     *)

\* the external trait: one mapped statement per listed name
ExternalFieldCount(s) == Len(Listed(s))
ExternalApply2(s, q1, o1, q2, o2) ==
  [i \in 1..Len(Listed(s)) |->
     Invoke(Stringize(Listed(s)[i]),
            <<RefArg(Loc(s, o1, Listed(s)[i]), MemberAccessType(q1, DeclaredType(s, Listed(s)[i]))),
              RefArg(Loc(s, o2, Listed(s)[i]), MemberAccessType(q2, DeclaredType(s, Listed(s)[i])))>>)]
ExternalVisitPointers(s) ==
  [i \in 1..Len(Listed(s)) |->
     Invoke(Stringize(Listed(s)[i]), <<PtrArg(Listed(s)[i], DeclaredType(s, Listed(s)[i]))>>)]
ExternalVisitAccessors(s) ==
  [i \in 1..Len(Listed(s)) |->
     Invoke(Stringize(Listed(s)[i]), <<AccArg(Listed(s)[i], DeclaredType(s, Listed(s)[i]))>>)]
ExternalVisitTypes(s) ==
  [i \in 1..Len(Listed(s)) |->
     Invoke(Stringize(Listed(s)[i]), <<TypeArg(DeclaredType(s, Listed(s)[i]))>>)]
ExternalGetValue(s, idx, q, obj) ==
  RefArg(Loc(s, obj, Listed(s)[idx + 1]),
         MemberAccessType(q, DeclaredType(s, Listed(s)[idx + 1])))

\* visit_struct::accessor<T S::*, ptr> applied to a qualified instance
AccessorCall(s, member, q, obj) ==
  LET e == PtrMemAccess(ExprOf(q), DeclaredType(s, member))
  IN RefArg(Loc(s, obj, member), DeclType(e.cat, e.type))

\* static const std::size_t field_count = Registered_Members_List__::size
IntrusiveFieldCount(s) == TypeListSize(RegisteredMembersList(s))

\* the two instances passed in the wrong order
MemberApply2Swapped(s, m, q1, o1, q2, o2) ==
  LET e1 == PtrMemAccess(ExprOf(q1), m.value_type)
      e2 == PtrMemAccess(ExprOf(q2), m.value_type)
  IN Invoke(m.name, <<RefArg(Loc(s, o2, m.ptr), DeclType(e2.cat, e2.type)),
                      RefArg(Loc(s, o1, m.ptr), DeclType(e1.cat, e1.type))>>)

\* member_helper<M>::apply_visitor(visitor, s1, s2)
MemberApply2(s, m, q1, o1, q2, o2) ==
  LET e1 == PtrMemAccess(ExprOf(q1), m.value_type)
      e2 == PtrMemAccess(ExprOf(q2), m.value_type)
  IN Invoke(m.name, <<RefArg(Loc(s, o1, m.ptr), DeclType(e1.cat, e1.type)),
                      RefArg(Loc(s, o2, m.ptr), DeclType(e2.cat, e2.type))>>)
\* member_helper<M>::visit_pointers, visit_accessors, visit_types
MemberVisitPointers(m) == Invoke(m.name, <<PtrArg(m.ptr, m.value_type)>>)
MemberVisitAccessors(m) == Invoke(m.name, <<AccArg(m.ptr, m.value_type)>>)
MemberVisitTypes(m) == Invoke(m.name, <<TypeArg(m.value_type)>>)

RECURSIVE StructureApply2(_, _, _, _, _, _)
StructureApply2(s, ms, q1, o1, q2, o2) ==
  IF ms = <<>> THEN <<>>
  ELSE <<MemberApply2(s, Head(ms), q1, o1, q2, o2)>> \o
       StructureApply2(s, Cdr(ms), q1, o1, q2, o2)
RECURSIVE StructureVisitPointers(_)
StructureVisitPointers(ms) ==
  IF ms = <<>> THEN <<>>
  ELSE <<MemberVisitPointers(Head(ms))>> \o StructureVisitPointers(Cdr(ms))
RECURSIVE StructureVisitAccessors(_)
StructureVisitAccessors(ms) ==
  IF ms = <<>> THEN <<>>
  ELSE <<MemberVisitAccessors(Head(ms))>> \o StructureVisitAccessors(Cdr(ms))
RECURSIVE StructureVisitTypes(_)
StructureVisitTypes(ms) ==
  IF ms = <<>> THEN <<>>
  ELSE <<MemberVisitTypes(Head(ms))>> \o StructureVisitTypes(Cdr(ms))

IntrusiveApply2(s, q1, o1, q2, o2) ==
  StructureApply2(s, RegisteredMembersList(s), q1, o1, q2, o2)
IntrusiveVisitPointers(s) == StructureVisitPointers(RegisteredMembersList(s))
IntrusiveVisitAccessors(s) == StructureVisitAccessors(RegisteredMembersList(s))
IntrusiveVisitTypes(s) == StructureVisitTypes(RegisteredMembersList(s))

\* a lookup whose index is taken one too far
IntrusiveGetPointerNext(s, idx) ==
  Find(RegisteredMembersList(s), (idx + 1) % TypeListSize(RegisteredMembersList(s))).ptr

\* get_pointer(integral_constant<int, idx>) and get_value(tag, s)
IntrusiveGetPointer(s, idx) == Find(RegisteredMembersList(s), idx).ptr
IntrusiveGetValue(s, idx, q, obj) ==
  LET m == Find(RegisteredMembersList(s), idx)
      e == PtrMemAccess(ExprOf(q), m.value_type)
  IN RefArg(Loc(s, obj, IntrusiveGetPointer(s, idx)), DeclType(e.cat, e.type))

\* fusion: field_count, fusion_visitor_pair, fusion_visitor_types,
\* fusion_visitor_accessors, get_value
FusionFieldCount(s) == FusionSize(s)
FusionVisitPair(s, idx, q1, o1, q2, o2) ==
  Invoke(FusionFieldName(s, idx),
         <<RefArg(Loc(s, o1, Listed(s)[idx + 1]), FusionAccessor(s, idx, q1)),
           RefArg(Loc(s, o2, Listed(s)[idx + 1]), FusionAccessor(s, idx, q2))>>)
FusionApply2(s, q1, o1, q2, o2) ==
  [i \in 1..FusionSize(s) |-> FusionVisitPair(s, i - 1, q1, o1, q2, o2)]
FusionVisitTypes(s) ==
  [i \in 1..FusionSize(s) |->
     Invoke(FusionFieldName(s, i - 1), <<TypeArg(FusionValueAt(s, i - 1))>>)]
FusionVisitAccessors(s) ==
  [i \in 1..FusionSize(s) |->
     Invoke(FusionFieldName(s, i - 1),
            <<AccArg(Listed(s)[i], FusionValueAt(s, i - 1))>>)]
FusionGetValue(s, idx, q, obj) ==
  RefArg(Loc(s, obj, Listed(s)[idx + 1]), FusionAccessor(s, idx, q))

\* an inference that strips const together with the reference
accessor_value_type_clean(s, member) ==
  [RemoveReference(HanaAccessorType(s, member, "lvalue")) EXCEPT !.const = FALSE]

\* an inference that probes the accessor with S & and const S &
accessor_value_type_const_probe(s, member) ==
  LET test1 == HanaAccessorType(s, member, "lvalue")
      test2 == HanaAccessorType(s, member, "const")
  IN IF test1 = test2 THEN test1 ELSE RemoveReference(test1)

\* hana: accessor_value_type<A, S> probes the accessor with S & and S &&
accessor_value_type(s, member) ==
  LET test1 == HanaAccessorType(s, member, "lvalue")
      test2 == HanaAccessorType(s, member, "rvalue")
  IN IF test1 = test2 THEN test1 ELSE RemoveReference(test1)

HanaFieldCount(s) == Len(HanaAccessors(s))
HanaApply2(s, q1, o1, q2, o2) ==
  LET acc == HanaAccessors(s)
  IN [i \in 1..Len(acc) |->
        Invoke(acc[i].first,
               <<RefArg(Loc(s, o1, acc[i].second), HanaAccessorType(s, acc[i].second, q1)),
                 RefArg(Loc(s, o2, acc[i].second), HanaAccessorType(s, acc[i].second, q2))>>)]
HanaVisitTypes(s) ==
  LET acc == HanaAccessors(s)
  IN [i \in 1..Len(acc) |->
        Invoke(acc[i].first, <<TypeArg(accessor_value_type(s, acc[i].second))>>)]
HanaVisitAccessors(s) ==
  LET acc == HanaAccessors(s)
  IN [i \in 1..Len(acc) |->
        Invoke(acc[i].first,
               <<AccArg(acc[i].second, accessor_value_type(s, acc[i].second))>>)]
HanaGetValue(s, idx, q, obj) ==
  LET pair == HanaAccessors(s)[idx + 1]
  IN RefArg(Loc(s, obj, pair.second), HanaAccessorType(s, pair.second, q))

\* the string literal a name query returns
NameArg(name) == [kind |-> "name", loc |-> NoLoc, member |-> name, type |-> NoType]

\* get_name(integral_constant<int, idx>), strategy by strategy
ExternalGetName(s, idx) == NameArg(Stringize(Listed(s)[idx + 1]))
IntrusiveGetName(s, idx) == NameArg(Find(RegisteredMembersList(s), idx).name)
\* a name looked up in the struct as declared, not in the adapted sequence
FusionGetNameDeclared(s, idx) == NameArg(Members(s)[idx + 1].name)
FusionGetName(s, idx) == NameArg(FusionFieldName(s, idx))
HanaGetName(s, idx) == NameArg(HanaAccessors(s)[idx + 1].first)

\* a query without index that answers with the name of the first field
IntrusiveGetStructNameFirstField(s) == IntrusiveGetName(s, 0)

\* BEGIN_VISITABLES(NAME): static Visit_Struct_Get_Name__() returns #NAME
Visit_Struct_Get_Name__(s) == Stringize(Sites[s].begin)
\* the intrusive trait's get_name(), the overload without an index
IntrusiveGetStructName(s) == NameArg(Visit_Struct_Get_Name__(s))

\* get_accessor(integral_constant<int, idx>), strategy by strategy
ExternalGetAccessor(s, idx) ==
  AccArg(Listed(s)[idx + 1], DeclaredType(s, Listed(s)[idx + 1]))
IntrusiveGetAccessor(s, idx) ==
  LET m == Find(RegisteredMembersList(s), idx) IN AccArg(m.ptr, m.value_type)
FusionGetAccessor(s, idx) == AccArg(Listed(s)[idx + 1], FusionValueAt(s, idx))
HanaGetAccessor(s, idx) ==
  LET pair == HanaAccessors(s)[idx + 1]
  IN AccArg(pair.second, accessor_value_type(s, pair.second))

\* type_at(integral_constant<int, idx>), strategy by strategy
ExternalTypeAt(s, idx) == TypeArg(DeclaredType(s, Listed(s)[idx + 1]))
IntrusiveTypeAt(s, idx) == TypeArg(Find(RegisteredMembersList(s), idx).value_type)
FusionTypeAt(s, idx) == TypeArg(FusionValueAt(s, idx))
\* an inference made once for the struct and used for every field
HanaTypeAtUniform(s, idx) ==
  TypeArg(accessor_value_type(s, HanaAccessors(s)[1].second))
HanaTypeAt(s, idx) ==
  TypeArg(accessor_value_type(s, HanaAccessors(s)[idx + 1].second))

-----------------------------------------------------------------------------
(* Trait dispatch and the entry point apply_visitor(v, s)                  *)

\* types no registration statement names: a plain struct, and a struct that
\* derives from the intrusive struct foo and adds a member of its own
OtherTypes == [plain |-> [base |-> "none"], derived |-> [base |-> "foo"]]

\* typename T::Visit_Struct_Visitable_Structure_Tag__ names the typedef that
\* END_VISITABLES declares in T, or the one T inherits from a base class
HasIntrusiveTag(t) ==
  IF t \in Types THEN Strategy(t) = "intrusive"
  ELSE OtherTypes[t].base \in Types /\ Strategy(OtherTypes[t].base) = "intrusive"

\* the type whose registration the matching specialization of
\* traits::visitable<T> reads, "none" when no specialization matches
TraitOf(t) ==
  IF t \in Types THEN t
  ELSE IF HasIntrusiveTag(t) THEN OtherTypes[t].base
  ELSE "none"

\* traits::is_visitable<T>: traits::visitable<T>::value is well-formed and true
is_visitable(t) == TraitOf(t) # "none"

TraitApply(s, q, obj) ==
  CASE Strategy(s) = "external" -> ExternalApply(s, q, obj)
    [] Strategy(s) = "intrusive" -> IntrusiveApply(s, q, obj)
    [] Strategy(s) = "fusion" -> FusionApply(s, q, obj)
    [] Strategy(s) = "hana" -> HanaApply(s, q, obj)

TraitFieldCount(s) ==
  CASE Strategy(s) = "external" -> ExternalFieldCount(s)
    [] Strategy(s) = "intrusive" -> IntrusiveFieldCount(s)
    [] Strategy(s) = "fusion" -> FusionFieldCount(s)
    [] Strategy(s) = "hana" -> HanaFieldCount(s)

TraitApply2(s, q1, o1, q2, o2) ==
  CASE Strategy(s) = "external" -> ExternalApply2(s, q1, o1, q2, o2)
    [] Strategy(s) = "intrusive" -> IntrusiveApply2(s, q1, o1, q2, o2)
    [] Strategy(s) = "fusion" -> FusionApply2(s, q1, o1, q2, o2)
    [] Strategy(s) = "hana" -> HanaApply2(s, q1, o1, q2, o2)

TraitVisitTypes(s) ==
  CASE Strategy(s) = "external" -> ExternalVisitTypes(s)
    [] Strategy(s) = "intrusive" -> IntrusiveVisitTypes(s)
    [] Strategy(s) = "fusion" -> FusionVisitTypes(s)
    [] Strategy(s) = "hana" -> HanaVisitTypes(s)

TraitVisitAccessors(s) ==
  CASE Strategy(s) = "external" -> ExternalVisitAccessors(s)
    [] Strategy(s) = "intrusive" -> IntrusiveVisitAccessors(s)
    [] Strategy(s) = "fusion" -> FusionVisitAccessors(s)
    [] Strategy(s) = "hana" -> HanaVisitAccessors(s)

\* the fusion and the hana specialization have no member visit_pointers
HasVisitPointers(s) == Strategy(s) \in {"external", "intrusive"}
TraitVisitPointers(s) ==
  CASE Strategy(s) = "external" -> ExternalVisitPointers(s)
    [] Strategy(s) = "intrusive" -> IntrusiveVisitPointers(s)

TraitGetValue(s, idx, q, obj) ==
  CASE Strategy(s) = "external" -> ExternalGetValue(s, idx, q, obj)
    [] Strategy(s) = "intrusive" -> IntrusiveGetValue(s, idx, q, obj)
    [] Strategy(s) = "fusion" -> FusionGetValue(s, idx, q, obj)
    [] Strategy(s) = "hana" -> HanaGetValue(s, idx, q, obj)

TraitGetName(s, idx) ==
  CASE Strategy(s) = "external" -> ExternalGetName(s, idx)
    [] Strategy(s) = "intrusive" -> IntrusiveGetName(s, idx)
    [] Strategy(s) = "fusion" -> FusionGetName(s, idx)
    [] Strategy(s) = "hana" -> HanaGetName(s, idx)

TraitGetAccessor(s, idx) ==
  CASE Strategy(s) = "external" -> ExternalGetAccessor(s, idx)
    [] Strategy(s) = "intrusive" -> IntrusiveGetAccessor(s, idx)
    [] Strategy(s) = "fusion" -> FusionGetAccessor(s, idx)
    [] Strategy(s) = "hana" -> HanaGetAccessor(s, idx)

TraitTypeAt(s, idx) ==
  CASE Strategy(s) = "external" -> ExternalTypeAt(s, idx)
    [] Strategy(s) = "intrusive" -> IntrusiveTypeAt(s, idx)
    [] Strategy(s) = "fusion" -> FusionTypeAt(s, idx)
    [] Strategy(s) = "hana" -> HanaTypeAt(s, idx)

\* the accessor an accessor visitor was handed, applied to an instance
TraitAccessorCall(s, member, q, obj) ==
  CASE Strategy(s) = "external" -> AccessorCall(s, member, q, obj)
    [] Strategy(s) = "intrusive" -> AccessorCall(s, member, q, obj)
    [] Strategy(s) = "fusion" ->
         FusionGetValue(s, CHOOSE k \in 0..(FusionSize(s) - 1) : Listed(s)[k + 1] = member,
                        q, obj)
    [] Strategy(s) = "hana" ->
         RefArg(Loc(s, obj, member), HanaAccessorType(s, member, q))

\* template <typename S, typename V> apply_visitor(V && v, S && s)
apply_visitor(s, q, obj) == TraitApply(s, q, obj)

\* the entry points that forward to the trait
apply_visitor2(s, q1, o1, q2, o2) == TraitApply2(s, q1, o1, q2, o2)
field_count(s) == TraitFieldCount(s)
visit_types(s) == TraitVisitTypes(s)
visit_accessors(s) == TraitVisitAccessors(s)
visit_pointers(s) == TraitVisitPointers(s)
get(s, idx, q, obj) == TraitGetValue(s, idx, q, obj)
\* get_name<idx, S>(): S is taken with const, volatile and reference removed
get_name(s, idx, q) == TraitGetName(s, idx)
get_accessor(s, idx, q) == TraitGetAccessor(s, idx)
type_at(s, idx) == TraitTypeAt(s, idx)

\* for_each(s, v): the value-visitation alias
for_each(s, q, obj) == apply_visitor(s, q, obj)

-----------------------------------------------------------------------------
(* The program: one registered type, two instances a and b, one visitor    *)

Values == 0..MaxVal

NoQuery ==
  [idx |-> -1, q |-> "none", obj |-> "none",
   ref |-> [kind |-> "none", loc |-> NoLoc, member |-> "", type |-> NoType]]

RegIdle ==
  /\ phase = "none"
  /\ ov = <<>>
  /\ members = <<>>
  /\ RegList = <<>>

Init ==
  /\ S \in Types
  /\ mem = [l \in LocsOf(S) |-> 0]
  /\ log = <<>>
  /\ calls = <<>>
  /\ status = "ok"
  /\ cmp = 0
  /\ got = NoQuery
  /\ RegIdle

\* the record the program keeps of one visitation call on the visitor object
Call(op, q, obj, first, count) ==
  [op |-> op, q |-> q, obj |-> obj, first |-> first, count |-> count]

\* visit_struct::apply_visitor(vis, x) with x the instance obj, qualified q
ApplyVisitor(q, obj) ==
  /\ Len(calls) < MaxCalls
  /\ is_visitable(S)
  /\ log' = log \o apply_visitor(S, q, obj)
  /\ calls' = Append(calls, Call("apply_visitor", q, obj, Len(log) + 1, Len(log') - Len(log)))
  /\ UNCHANGED <<S, mem, status, phase, ov, members, RegList, cmp, got>>

\* visit_struct::for_each(x, vis)
ForEach(q, obj) ==
  /\ Len(calls) < MaxCalls
  /\ is_visitable(S)
  /\ log' = log \o for_each(S, q, obj)
  /\ calls' = Append(calls, Call("for_each", q, obj, Len(log) + 1, Len(log') - Len(log)))
  /\ UNCHANGED <<S, mem, status, phase, ov, members, RegList, cmp, got>>

\* a.m = v, for a member that is not const
WriteField(m, v) ==
  /\ \E k \in 1..Len(Members(S)) : Members(S)[k].name = m
  /\ ~DeclaredType(S, m).const
  /\ mem[Loc(S, "a", m)] # v
  /\ mem' = [mem EXCEPT ![Loc(S, "a", m)] = v]
  /\ UNCHANGED <<S, log, calls, status, phase, ov, members, RegList, cmp, got>>

\* the visitor assigns v through the reference it received at invocation i
WriteThrough(i, v) ==
  /\ i \in 1..Len(log)
  /\ Len(log[i].args) = 1
  /\ Writable(log[i].args[1])
  /\ log[i].args[1].loc[1] # "b"
  /\ Deref(log[i].args[1]) # v
  /\ mem' = [mem EXCEPT ![log[i].args[1].loc] = v]
  /\ UNCHANGED <<S, log, calls, status, phase, ov, members, RegList, cmp, got>>

\* the program constructs a fresh visitor object
NewVisitor ==
  /\ log # <<>>
  /\ log' = <<>>
  /\ calls' = <<>>
  /\ UNCHANGED <<S, mem, status, phase, ov, members, RegList, cmp, got>>

MemberNames == {"a", "b", "c", "d", "i", "s", "f", "i1", "i2", "v", "r"}

\* the visitor accumulates over calls on the instance a
Next ==
  \/ \E q \in Quals : ApplyVisitor(q, "a")
  \/ \E q \in Quals : ForEach(q, "a")
  \/ \E m \in MemberNames, v \in Values : WriteField(m, v)
  \/ \E i \in 1..(MaxFields * MaxCalls), v \in Values : WriteThrough(i, v)
  \/ NewVisitor

Spec == Init /\ [][Next]_vars

-----------------------------------------------------------------------------
(* Two instances visited in lockstep by a recording visitor                *)

InitPair == Init

\* visit_struct::apply_visitor(vis, x, y) on a fresh recording visitor
ApplyVisitor2(q1, o1, q2, o2) ==
  /\ is_visitable(S)
  /\ log' = apply_visitor2(S, q1, o1, q2, o2)
  /\ calls' = <<[op |-> "apply_visitor2", q |-> q1, obj |-> o1, q2 |-> q2, obj2 |-> o2,
                 first |-> 1, count |-> Len(log')]>>
  /\ UNCHANGED <<S, mem, status, phase, ov, members, RegList, cmp, got>>

NextPair ==
  \E q1 \in Quals, q2 \in Quals, o1 \in Objects, o2 \in Objects :
    ApplyVisitor2(q1, o1, q2, o2)

SpecPair == InitPair /\ [][NextPair]_vars

-----------------------------------------------------------------------------
(* The lexicographic comparison of two instances                           *)

\* a comparison that lets a later field overwrite the result
LexStepLast(result, inv) ==
  IF Deref(inv.args[1]) < Deref(inv.args[2]) THEN -1
  ELSE IF Deref(inv.args[1]) > Deref(inv.args[2]) THEN 1
  ELSE result

\* lex_compare_visitor::operator()(name, t1, t2), from the result so far
LexStep(result, inv) ==
  IF result # 0 THEN result
  ELSE IF Deref(inv.args[1]) < Deref(inv.args[2]) THEN -1
  ELSE IF Deref(inv.args[1]) > Deref(inv.args[2]) THEN 1
  ELSE 0

\* the visitor's result after the invocations invs, in the order they are made
RECURSIVE LexFold(_, _)
LexFold(result, invs) ==
  IF invs = <<>> THEN result ELSE LexFold(LexStep(result, Head(invs)), Tail(invs))

\* struct_cmp(t1, t2): both instances bind to const T &
struct_cmp(s, o1, o2) == LexFold(0, apply_visitor2(s, "const", o1, "const", o2))

NoCmp == [valid |-> FALSE, x |-> "a", y |-> "a", result |-> 0]

InitCmp ==
  /\ S \in Types
  /\ mem = [l \in LocsOf(S) |-> 0]
  /\ log = <<>>
  /\ calls = <<>>
  /\ status = "ok"
  /\ cmp = NoCmp
  /\ got = NoQuery
  /\ RegIdle

\* the program sets a registered field of one of the instances; a const field
\* keeps the value it was constructed with
SetField(obj, i, v) ==
  /\ i \in 1..Len(Listed(S))
  /\ ~DeclaredType(S, Listed(S)[i]).const
  /\ mem[Loc(S, obj, Listed(S)[i])] # v
  /\ mem' = [mem EXCEPT ![Loc(S, obj, Listed(S)[i])] = v]
  /\ cmp' = NoCmp
  /\ UNCHANGED <<S, log, calls, status, phase, ov, members, RegList, got>>

StructCmp(o1, o2) ==
  /\ is_visitable(S)
  /\ cmp' = [valid |-> TRUE, x |-> o1, y |-> o2, result |-> struct_cmp(S, o1, o2)]
  /\ UNCHANGED <<S, mem, log, calls, status, phase, ov, members, RegList, got>>

NextCmp ==
  \/ \E obj \in Objects, i \in 1..MaxFields, v \in Values : SetField(obj, i, v)
  \/ \E o1 \in Objects, o2 \in Objects : StructCmp(o1, o2)

SpecCmp == InitCmp /\ [][NextCmp]_vars

-----------------------------------------------------------------------------
(* Visitation without an instance                                          *)

InitNoInst == Init

NoInstCall(op, count) ==
  Call(op, "none", "none", Len(log) + 1, count)

VisitTypes ==
  /\ Len(calls) < MaxCalls
  /\ status = "ok"
  /\ is_visitable(S)
  /\ log' = log \o visit_types(S)
  /\ calls' = Append(calls, NoInstCall("visit_types", Len(visit_types(S))))
  /\ UNCHANGED <<S, mem, status, phase, ov, members, RegList, cmp, got>>

VisitAccessors ==
  /\ Len(calls) < MaxCalls
  /\ status = "ok"
  /\ is_visitable(S)
  /\ log' = log \o visit_accessors(S)
  /\ calls' = Append(calls, NoInstCall("visit_accessors", Len(visit_accessors(S))))
  /\ UNCHANGED <<S, mem, status, phase, ov, members, RegList, cmp, got>>

\* a program that calls visit_pointers on a type whose trait has no such
\* member does not compile, and the visitor is never invoked
VisitPointers ==
  /\ Len(calls) < MaxCalls
  /\ status = "ok"
  /\ is_visitable(S)
  /\ IF HasVisitPointers(S)
     THEN /\ log' = log \o visit_pointers(S)
          /\ calls' = Append(calls, NoInstCall("visit_pointers", Len(visit_pointers(S))))
          /\ UNCHANGED status
     ELSE /\ status' = "ill_formed"
          /\ calls' = Append(calls, NoInstCall("visit_pointers", 0))
          /\ UNCHANGED log
  /\ UNCHANGED <<S, mem, phase, ov, members, RegList, cmp, got>>

NextNoInst ==
  \/ VisitTypes
  \/ VisitAccessors
  \/ VisitPointers
  \/ NewVisitor

SpecNoInst == InitNoInst /\ [][NextNoInst]_vars

-----------------------------------------------------------------------------
(* Indexed access to one field of an instance                              *)

InitGet == Init

\* visit_struct::get<idx>(x)
Get(idx, q, obj) ==
  /\ is_visitable(S)
  /\ idx \in 0..(field_count(S) - 1)
  /\ got' = [idx |-> idx, q |-> q, obj |-> obj, ref |-> get(S, idx, q, obj)]
  /\ UNCHANGED <<S, mem, log, calls, status, phase, ov, members, RegList, cmp>>

\* visit_struct::apply_visitor(vis, x) on a fresh recording visitor
ApplyFresh(q, obj) ==
  /\ is_visitable(S)
  /\ log' = apply_visitor(S, q, obj)
  /\ calls' = <<Call("apply_visitor", q, obj, 1, Len(log'))>>
  /\ UNCHANGED <<S, mem, status, phase, ov, members, RegList, cmp, got>>

\* the program assigns v through the reference that get returned
WriteGot(v) ==
  /\ Writable(got.ref)
  /\ got.ref.loc[1] # "b"
  /\ Deref(got.ref) # v
  /\ mem' = [mem EXCEPT ![got.ref.loc] = v]
  /\ UNCHANGED <<S, log, calls, status, phase, ov, members, RegList, cmp, got>>

NextGet ==
  \/ \E idx \in 0..(MaxFields - 1), q \in Quals, obj \in Objects : Get(idx, q, obj)
  \/ \E q \in Quals, obj \in Objects : ApplyFresh(q, obj)
  \/ \E v \in Values : WriteGot(v)
  \/ \E i \in 1..MaxFields, v \in Values : WriteThrough(i, v)
  \/ \E m \in MemberNames, v \in Values : WriteField(m, v)

SpecGet == InitGet /\ [][NextGet]_vars

-----------------------------------------------------------------------------
(* Indexed queries next to the visitations they have to agree with         *)

InitIdx == Init

\* visit_struct::get_name<idx, S>(), S written with the qualification q
GetName(idx, q) ==
  /\ is_visitable(S)
  /\ idx \in 0..(field_count(S) - 1)
  /\ got' = [idx |-> idx, q |-> q, obj |-> "none", ref |-> get_name(S, idx, q)]
  /\ UNCHANGED <<S, mem, log, calls, status, phase, ov, members, RegList, cmp>>

\* visit_struct::get_accessor<idx>(x), kept to be applied to x
GetAccessor(idx, q, obj) ==
  /\ is_visitable(S)
  /\ idx \in 0..(field_count(S) - 1)
  /\ got' = [idx |-> idx, q |-> q, obj |-> obj, ref |-> get_accessor(S, idx, q)]
  /\ UNCHANGED <<S, mem, log, calls, status, phase, ov, members, RegList, cmp>>

\* visit_struct::type_at<idx, S>
TypeAt(idx) ==
  /\ is_visitable(S)
  /\ idx \in 0..(field_count(S) - 1)
  /\ got' = [idx |-> idx, q |-> "none", obj |-> "none", ref |-> type_at(S, idx)]
  /\ UNCHANGED <<S, mem, log, calls, status, phase, ov, members, RegList, cmp>>

NextIdx ==
  \/ \E idx \in 0..(MaxFields - 1), q \in Quals : GetName(idx, q)
  \/ \E idx \in 0..(MaxFields - 1), q \in Quals : GetAccessor(idx, q, "a")
  \/ \E idx \in 0..(MaxFields - 1) : TypeAt(idx)
  \/ \E idx \in 0..(MaxFields - 1), q \in Quals : Get(idx, q, "a")
  \/ \E q \in Quals : ApplyFresh(q, "a")
  \/ VisitTypes
  \/ NewVisitor

SpecIdx == InitIdx /\ [][NextIdx]_vars

-----------------------------------------------------------------------------
(* The entry points called on any type, with a visitor that cannot be      *)
(* copied or moved                                                         *)

\* template <typename V> f(V && v): V is Vis & for a named visitor and Vis
\* for a temporary
DeduceV(vcat) == IF vcat = "lvalue" THEN AddLRef(Ty("visitor")) ELSE Ty("visitor")
\* the parameter V && visitor, and decltype(std::forward<V>(v))
ForwardingParam(V) == AddRRef(V)
\* a wrapper that keeps the visitor itself
FusionVisitorMemberByValue(V) == RemoveReference(V)
\* fusion_visitor<decltype(std::forward<V>(v)), ...>::visitor
FusionVisitorMember(V) == ForwardingParam(V)
\* hana: the lambda captures [&v]
HanaCapture(V) == AddLRef(V)

\* the types the visitor is passed through, from the entry point down to the
\* place of the invocation
VisitorPath(s, V) ==
  CASE Strategy(s) = "external" -> <<ForwardingParam(V), ForwardingParam(V)>>
    [] Strategy(s) = "intrusive" ->
         <<ForwardingParam(V), ForwardingParam(V), ForwardingParam(V), ForwardingParam(V)>>
    [] Strategy(s) = "fusion" ->
         <<ForwardingParam(V), ForwardingParam(V), FusionVisitorMember(V)>>
    [] Strategy(s) = "hana" -> <<ForwardingParam(V), ForwardingParam(V), HanaCapture(V)>>

\* the object the invocations are made on: a reference refers to the caller's
\* visitor, anything else is an object constructed from it
VisitorTarget(s, vcat) ==
  LET path == VisitorPath(s, DeduceV(vcat))
  IN IF \A i \in 1..Len(path) : IsRef(path[i]) THEN "caller" ELSE "copy"

EntryOps ==
  {"apply_visitor", "apply_visitor2", "visit_types", "visit_accessors", "visit_pointers"}
InstanceOps == {"apply_visitor", "apply_visitor2"}

\* the call is well-formed: the enabling condition holds, the trait has the
\* member, and no visitor has to be constructed from the caller's
EntryCompiles(op, t, vcat) ==
  /\ is_visitable(t)
  /\ op = "visit_pointers" => HasVisitPointers(TraitOf(t))
  /\ Strategy(TraitOf(t)) = "intrusive" =>
       StructureHelperWellFormed(RegisteredMembersList(TraitOf(t)))
  /\ VisitorTarget(TraitOf(t), vcat) = "caller"

EntryInvocations(op, t, q) ==
  CASE op = "apply_visitor" -> apply_visitor(TraitOf(t), q, "a")
    [] op = "apply_visitor2" -> apply_visitor2(TraitOf(t), q, "a", "const", "b")
    [] op = "visit_types" -> visit_types(TraitOf(t))
    [] op = "visit_accessors" -> visit_accessors(TraitOf(t))
    [] op = "visit_pointers" -> visit_pointers(TraitOf(t))

InitEntry ==
  /\ S \in Types \cup DOMAIN OtherTypes
  /\ mem = [l \in (IF is_visitable(S) THEN LocsOf(TraitOf(S)) ELSE {}) |-> 0]
  /\ log = <<>>
  /\ calls = <<>>
  /\ status = "ok"
  /\ cmp = 0
  /\ got = NoQuery
  /\ RegIdle

\* one call of an entry point on the program's type, the visitor passed as
\* an lvalue or as a temporary
Entry(op, vcat, q) ==
  /\ Len(calls) < MaxCalls
  /\ status = "ok"
  /\ IF EntryCompiles(op, S, vcat)
     THEN /\ log' = log \o EntryInvocations(op, S, q)
          /\ calls' = Append(calls,
               [op |-> op, q |-> IF op \in InstanceOps THEN q ELSE "none",
                vcat |-> vcat, vis |-> VisitorTarget(TraitOf(S), vcat),
                first |-> Len(log) + 1, count |-> Len(log') - Len(log)])
          /\ UNCHANGED status
     ELSE /\ status' = "ill_formed"
          /\ calls' = Append(calls,
               [op |-> op, q |-> IF op \in InstanceOps THEN q ELSE "none",
                vcat |-> vcat, vis |-> "none", first |-> Len(log) + 1, count |-> 0])
          /\ UNCHANGED log
  /\ UNCHANGED <<S, mem, phase, ov, members, RegList, cmp, got>>

NextEntry ==
  \E op \in EntryOps, vcat \in {"lvalue", "rvalue"}, q \in Quals : Entry(op, vcat, q)

SpecEntry == InitEntry /\ [][NextEntry]_vars

-----------------------------------------------------------------------------
(* The external registration statement, then visitation                    *)

InitExt ==
  /\ S \in {s \in DOMAIN Defs \cup DOMAIN MalformedSites : Strategy(s) = "external"}
  /\ mem = [l \in LocsOf(S) |-> 0]
  /\ log = <<>>
  /\ calls = <<>>
  /\ status = "ok"
  /\ cmp = 0
  /\ got = NoQuery
  /\ RegIdle

\* VISITABLE_STRUCT(S, ...): the statements the three apply overloads expand
\* to have to compile
VisitableStruct ==
  /\ phase = "none"
  /\ IF ExternalWellFormed(S)
     THEN /\ phase' = "closed"
          /\ RegList' = [i \in 1..Len(PP_MAP("VISIT_STRUCT_MEMBER_HELPER", VaArgs(Listed(S)))) |->
                           PP_MAP("VISIT_STRUCT_MEMBER_HELPER", VaArgs(Listed(S)))[i].arg]
     ELSE /\ phase' = "ill_formed"
          /\ UNCHANGED RegList
  /\ UNCHANGED <<S, mem, log, calls, status, ov, members, cmp, got>>

NextExt ==
  \/ VisitableStruct
  \/ phase = "closed" /\ \E q \in Quals : ApplyVisitor(q, "a")
  \/ phase = "closed" /\ \E m \in MemberNames, v \in Values : WriteField(m, v)
  \/ phase = "closed" /\ NewVisitor

SpecExt == InitExt /\ [][NextExt]_vars

-----------------------------------------------------------------------------
(* The body of an intrusive struct, declaration by declaration             *)

\* the k-th member the author writes is named by its position
FreshName(ms) == Len(ms) + 1

InitReg ==
  /\ S = "big"
  /\ mem = <<>>
  /\ log = <<>>
  /\ calls = <<>>
  /\ status = "ok"
  /\ cmp = NoCmp
  /\ got = NoQuery
  /\ RegIdle

\* a name that is expanded again wherever it is used
TypedefAsMacro(fixed, o) == GetRegisteredMembers(o)

\* typedef ... Visit_Struct_Registered_Members_List__: the name keeps the type
\* it was declared with, whatever is declared after it
TypedefMeaning(fixed, o) == fixed

\* BEGIN_VISITABLES(NAME); a second one redeclares VISIT_STRUCT_CURRENT_TYPE
BeginVisitables ==
  /\ phase \in {"none", "open", "closed", "late"}
  /\ IF phase = "none"
     THEN phase' = "open" /\ ov' = BeginOverloads
     ELSE phase' = "ill_formed" /\ UNCHANGED ov
  /\ UNCHANGED <<S, mem, log, calls, status, members, RegList, cmp, got>>

\* VISITABLE(TYPE, NAME); before BEGIN_VISITABLES the names the macro uses
\* are not declared, after END_VISITABLES they still are
Visitable(type, name) ==
  /\ phase \in {"none", "open", "closed", "late"}
  /\ Len(members) < MaxDecls
  /\ IF phase # "none" /\ VisitableWellFormed(ov, members, type, name)
     THEN /\ members' = Append(members, M(name, type))
          /\ ov' = VisitableOverloads(ov, type, name)
          /\ phase' = IF phase = "open" THEN "open" ELSE "late"
          /\ RegList' = IF phase = "open" THEN RegList ELSE TypedefMeaning(RegList, ov')
     ELSE /\ phase' = "ill_formed"
          /\ UNCHANGED <<members, ov, RegList>>
  /\ UNCHANGED <<S, mem, log, calls, status, cmp, got>>

\* END_VISITABLES; without BEGIN_VISITABLES the function it names is not
\* declared, a second one redeclares the typedefs
EndVisitables ==
  /\ phase \in {"none", "open", "closed", "late"}
  /\ IF phase = "open"
     THEN phase' = "closed" /\ RegList' = GetRegisteredMembers(ov)
     ELSE phase' = "ill_formed" /\ UNCHANGED RegList
  /\ UNCHANGED <<S, mem, log, calls, status, ov, members, cmp, got>>

NextReg ==
  \/ BeginVisitables
  \/ \E type \in {Ty("int"), LRefTy("int")}, name \in {FreshName(members), 1} :
       Visitable(type, name)
  \/ EndVisitables

SpecReg == InitReg /\ [][NextReg]_vars

-----------------------------------------------------------------------------
(* Properties                                                              *)

\* the invocation the i-th of a call's invocations is recorded at
At(c, i) == log[c.first + i - 1]
\* the i-th field listed at the registration site of s
Field(s, i) == Listed(s)[i]
OrdinaryMember(t) == ~t.const /\ ~IsRef(t)

\* C1: one call apply_visitor(v, x) invokes v exactly field_count(S) times,
\* and its i-th invocation carries the name of the i-th registered field and
\* a reference to the storage of that field of x, in registration order
C1_ApplyVisitsEveryFieldInOrder ==
  \A k \in 1..Len(calls) :
    LET c == calls[k] IN
      /\ c.count = field_count(S)
      /\ c.count = Len(Listed(S))
      /\ \A i \in 1..c.count :
           /\ At(c, i).name = Field(S, i)
           /\ Len(At(c, i).args) = 1
           /\ At(c, i).args[1].kind = "ref"
           /\ At(c, i).args[1].loc = Loc(S, c.obj, Field(S, i))
           /\ Deref(At(c, i).args[1]) = mem[Loc(S, c.obj, Field(S, i))]
      /\ \A i, j \in 1..c.count : i # j => At(c, i).name # At(c, j).name

C1_Witness ==
  /\ S = "foo"
  /\ Len(calls) = 1
  /\ calls[1].op = "apply_visitor"
  /\ Len(log) = 3
  /\ mem[<<"a", "i">>] = 1

\* C2: field_count of a registered type is the number of fields the author
\* listed at the registration site; for an intrusive struct that is the
\* number of VISITABLE declarations between the two markers
C2_FieldCountIsNumberListed ==
  phase = "closed" => TypeListSize(RegList) = Len(members)

\* C3: a struct declared b, i, d, s and registered d, i, b is visited as
\* d, then i, then b, each time with the storage of the member of that name,
\* and the unlisted member s is never visited
C3_RegistrationOrderNotDeclarationOrder ==
  S \in {"test_struct_two", "fusion_two", "hana_two"} =>
    \A k \in 1..Len(calls) :
      LET c == calls[k] IN
        /\ c.count = 3
        /\ <<At(c, 1).name, At(c, 2).name, At(c, 3).name>> = <<"d", "i", "b">>
        /\ At(c, 1).args[1].loc = <<c.obj, "d">>
        /\ At(c, 2).args[1].loc = <<c.obj, "i">>
        /\ At(c, 3).args[1].loc = <<c.obj, "b">>
        /\ \A i \in 1..c.count :
             At(c, i).name # "s" /\ At(c, i).args[1].loc # <<c.obj, "s">>

C3_Witness ==
  /\ S = "test_struct_two"
  /\ Len(calls) = 1
  /\ Len(log) = 3
  /\ mem[<<"a", "s">>] = 1

\* C4: for a field that is an ordinary value member of type T the visitor
\* receives T & from a mutable lvalue instance, const T & from a const
\* lvalue instance and T && from an rvalue instance
C4_QualificationTracksInstance ==
  \A k \in 1..Len(calls) :
    LET c == calls[k] IN
      \A i \in 1..c.count :
        LET t == DeclaredType(S, Field(S, i)) IN
          OrdinaryMember(t) =>
            At(c, i).args[1].type =
              [base |-> t.base,
               const |-> (c.q = "const"),
               ref |-> IF c.q = "rvalue" THEN "rref" ELSE "lref"]

C4_Witness ==
  /\ Len(calls) = 2
  /\ calls[1].q = "const"
  /\ calls[2].q = "rvalue"
  /\ S = "hana_one"

\* C5: for a field declared with a reference type or a const type the
\* visitor receives exactly the type of the member access x.field on a
\* container of the same qualification
C5_ConstAndReferenceMembersAsMemberAccess ==
  \A k \in 1..Len(calls) :
    LET c == calls[k] IN
      \A i \in 1..c.count :
        LET t == DeclaredType(S, Field(S, i)) IN
          ~OrdinaryMember(t) =>
            At(c, i).args[1].type = MemberAccessType(c.q, t)

\* C10: N calls on the same visitor object leave field_count * N records,
\* call k holding the records (k-1) * field_count + 1 .. k * field_count,
\* every call with the same sequence of names
C10_CallsAccumulate ==
  /\ Len(log) = field_count(S) * Len(calls)
  /\ \A k \in 1..Len(calls) :
       LET c == calls[k] IN
         /\ c.first = (k - 1) * field_count(S) + 1
         /\ c.count = field_count(S)
         /\ [i \in 1..c.count |-> At(c, i).name] = Listed(S)
         /\ \A i \in 1..c.count :
              /\ At(c, i).args[1].loc = Loc(S, c.obj, Field(S, i))
              /\ OrdinaryMember(DeclaredType(S, Field(S, i))) =>
                   (At(c, i).args[1].type.const <=> (c.q = "const"))

C10_Witness ==
  /\ Len(calls) = 2
  /\ calls[1].op = "apply_visitor"
  /\ calls[2].op = "for_each"
  /\ calls[1].q # calls[2].q
  /\ Len(log) = 6
  /\ \E l \in DOMAIN mem : mem[l] # 0

LvalueQual(q) == q \in {"lvalue", "const"}

\* the reference recorded for field idx by the visitor's call, and by get
VisitedAddress(c, i) == At(c, i).args[1].loc
GotAddress == got.ref.loc

\* the address handed out for a field of an lvalue instance is the address
\* of the member: by the visitor, and by get
AddressIsMember ==
  /\ \A k \in 1..Len(calls) :
       LET c == calls[k] IN
         LvalueQual(c.q) =>
           \A i \in 1..c.count :
             /\ VisitedAddress(c, i) = Loc(S, c.obj, Field(S, i))
             /\ Deref(At(c, i).args[1]) = mem[Loc(S, c.obj, Field(S, i))]
  /\ (got.idx >= 0 /\ LvalueQual(got.q)) =>
       /\ GotAddress = Loc(S, got.obj, Field(S, got.idx + 1))
       /\ Deref(got.ref) = mem[Loc(S, got.obj, Field(S, got.idx + 1))]
       /\ got.ref.type.ref = "lref"

\* the same field of the two instances, one reached by get and one by the
\* visitor
SameFieldOfTwoInstances(c) ==
  /\ got.idx >= 0
  /\ LvalueQual(got.q)
  /\ LvalueQual(c.q)
  /\ got.obj # c.obj
  /\ got.idx + 1 <= c.count

\* C6 as stated: the address handed out is the member's, and two different
\* instances yield two different addresses for the same field name
C6_AliasesMemberAndInstancesDiffer ==
  /\ AddressIsMember
  /\ \A k \in 1..Len(calls) :
       SameFieldOfTwoInstances(calls[k]) =>
         GotAddress # VisitedAddress(calls[k], got.idx + 1)

\* C6 amended: the addresses of two instances differ for every field that
\* is not declared with a reference type
C6_AliasesMemberAndValueFieldsDiffer ==
  /\ AddressIsMember
  /\ \A k \in 1..Len(calls) :
       (/\ SameFieldOfTwoInstances(calls[k])
        /\ ~IsRef(DeclaredType(S, Field(S, got.idx + 1)))) =>
         GotAddress # VisitedAddress(calls[k], got.idx + 1)

\* a write through the reference get<1>(a) returned is read back from a.i
\* while the visitor holds the address of b.i
C6_Witness ==
  /\ S = "foo"
  /\ got.idx = 1
  /\ got.obj = "a"
  /\ got.q = "lvalue"
  /\ mem[<<"a", "i">>] = 1
  /\ Len(calls) = 1
  /\ calls[1].obj = "b"
  /\ calls[1].q = "lvalue"

\* C7: apply_visitor(v, x, y) invokes v field_count(S) times in registration
\* order, the i-th time with the name of field i, field i of x as second
\* argument and field i of y as third argument
C7_PairVisitsSameFieldOfBoth ==
  \A k \in 1..Len(calls) :
    LET c == calls[k] IN
      /\ c.count = field_count(S)
      /\ c.count = Len(Listed(S))
      /\ \A i \in 1..c.count :
           /\ At(c, i).name = Field(S, i)
           /\ Len(At(c, i).args) = 2
           /\ At(c, i).args[1].loc = Loc(S, c.obj, Field(S, i))
           /\ At(c, i).args[2].loc = Loc(S, c.obj2, Field(S, i))
           /\ OrdinaryMember(DeclaredType(S, Field(S, i))) =>
                /\ At(c, i).args[1].type = MemberAccessType(c.q, DeclaredType(S, Field(S, i)))
                /\ At(c, i).args[2].type = MemberAccessType(c.q2, DeclaredType(S, Field(S, i)))

C7_Witness ==
  /\ S = "foo"
  /\ Len(calls) = 1
  /\ calls[1].obj = "a"
  /\ calls[1].obj2 = "b"
  /\ calls[1].q = "lvalue"
  /\ calls[1].q2 = "rvalue"
  /\ Len(log) = 3

\* the value of the i-th registered field of instance obj
FieldValue(obj, i) == mem[Loc(S, obj, Field(S, i))]
Differing(x, y) == {i \in 1..Len(Listed(S)) : FieldValue(x, i) # FieldValue(y, i)}
FirstDiffering(x, y) == CHOOSE i \in Differing(x, y) : \A j \in Differing(x, y) : i <= j

\* C8: the lexicographic comparison is 0 when the instances agree on every
\* registered field, otherwise the sign of the comparison of the first field
\* on which they differ, and swapping the instances negates it
C8_LexCompareFirstDifference ==
  cmp.valid =>
    /\ Differing(cmp.x, cmp.y) = {} => cmp.result = 0
    /\ cmp.x = cmp.y => cmp.result = 0
    /\ Differing(cmp.x, cmp.y) # {} =>
         LET i == FirstDiffering(cmp.x, cmp.y) IN
           cmp.result =
             IF FieldValue(cmp.x, i) < FieldValue(cmp.y, i) THEN -1 ELSE 1
    /\ struct_cmp(S, cmp.y, cmp.x) = -cmp.result

\* the first field on which a and b differ says greater, a later one says less
C8_Witness ==
  /\ cmp.valid
  /\ cmp.x = "a"
  /\ cmp.y = "b"
  /\ cmp.result = 1
  /\ Cardinality(Differing("a", "b")) = 2
  /\ \E i \in Differing("a", "b") : FieldValue("a", i) < FieldValue("b", i)

NoInstKind(op) ==
  CASE op = "visit_types" -> "type_c"
    [] op = "visit_pointers" -> "ptr"
    [] op = "visit_accessors" -> "accessor"

\* what one no-instance visitation has to have recorded
NoInstCallCorrect(c) ==
  /\ c.count = field_count(S)
  /\ c.count = Len(Listed(S))
  /\ \A i \in 1..c.count :
       /\ At(c, i).name = Field(S, i)
       /\ Len(At(c, i).args) = 1
       /\ At(c, i).args[1].kind = NoInstKind(c.op)
       /\ At(c, i).args[1].loc = NoLoc
       /\ c.op = "visit_types" =>
            At(c, i).args[1].type = DeclaredType(S, Field(S, i))
       /\ c.op = "visit_pointers" =>
            /\ At(c, i).args[1].member = Field(S, i)
            /\ At(c, i).args[1].type = DeclaredType(S, Field(S, i))
       /\ c.op = "visit_accessors" =>
            \A q \in Quals, obj \in Objects :
              TraitAccessorCall(S, At(c, i).args[1].member, q, obj).loc =
                Loc(S, obj, Field(S, i))

GotField == Field(S, got.idx + 1)

\* C11: get_name<i, S>() is the literal name of the i-th registered field,
\* the name the visitor is given at the i-th invocation of apply_visitor, and
\* the same whichever qualification S is written with and however often it is
\* asked
C11_GetNameIsRegisteredName ==
  got.ref.kind = "name" =>
    /\ got.ref.member = GotField
    /\ \A q \in Quals : get_name(S, got.idx, q) = got.ref
    /\ \A k \in 1..Len(calls) :
         calls[k].op = "apply_visitor" =>
           At(calls[k], got.idx + 1).name = got.ref.member

C11_Witness ==
  /\ S = "fusion_two"
  /\ got.ref.kind = "name"
  /\ got.idx = 0
  /\ got.q = "rvalue"
  /\ got.ref.member = "d"
  /\ Len(calls) = 1
  /\ calls[1].op = "apply_visitor"

\* C12: get<i>(x) is what the visitor receives at the i-th invocation of
\* apply_visitor(v, x) on an x of the same qualification, an rvalue x gives an
\* rvalue reference to a field that is not itself declared as a reference,
\* and get_accessor<i>(x) applied to x returns the same field as get<i>(x)
C12_IndexedAccessAgreesWithIteration ==
  /\ got.ref.kind = "ref" =>
       /\ \A k \in 1..Len(calls) :
            (/\ calls[k].op = "apply_visitor"
             /\ calls[k].q = got.q
             /\ calls[k].obj = got.obj) =>
              At(calls[k], got.idx + 1).args[1] = got.ref
       /\ (got.q = "rvalue" /\ ~IsRef(DeclaredType(S, GotField))) =>
            got.ref.type.ref = "rref"
  /\ got.ref.kind = "accessor" =>
       TraitAccessorCall(S, got.ref.member, got.q, got.obj) =
         get(S, got.idx, got.q, got.obj)

\* C13: type_at<i, S> is the declared type of the i-th registered field and
\* the tag visit_types<S> passes at its i-th invocation; the hana struct with
\* members int i1 and const int i2 gives int and const int
C13_TypeAtIsDeclaredType ==
  got.ref.kind = "type_c" =>
    /\ got.ref.type = DeclaredType(S, GotField)
    /\ \A k \in 1..Len(calls) :
         calls[k].op = "visit_types" =>
           At(calls[k], got.idx + 1).args[1] = got.ref
    /\ S = "hana_three" =>
         got.ref.type = (IF got.idx = 0 THEN Ty("int") ELSE ConstTy("int"))

C13_Witness ==
  /\ S = "hana_three"
  /\ got.ref.kind = "type_c"
  /\ got.idx = 1
  /\ got.ref.type = ConstTy("int")
  /\ Len(calls) = 1
  /\ calls[1].op = "visit_types"

\* C14 as stated: the hana strategy infers the declared type from a probe
\* with a mutable container and a probe with a const container, and the
\* inference returns the declared type of every member
C14_InferredFromMutableAndConstProbe ==
  (got.ref.kind = "type_c" /\ Strategy(S) = "hana") =>
    /\ got.ref.type = accessor_value_type_const_probe(S, GotField)
    /\ got.ref.type = DeclaredType(S, GotField)

\* C14 amended: the two probes are a mutable lvalue container and an rvalue
\* container; equal results are the declared type (a reference member),
\* different results give the lvalue probe's result with its reference
\* removed (ordinary and const members), and that is the declared type
C14_InferredFromLvalueAndRvalueProbe ==
  (got.ref.kind = "type_c" /\ Strategy(S) = "hana") =>
    LET test1 == HanaAccessorType(S, GotField, "lvalue")
        test2 == HanaAccessorType(S, GotField, "rvalue")
    IN /\ got.ref.type = (IF test1 = test2 THEN test1 ELSE RemoveReference(test1))
       /\ got.ref.type = DeclaredType(S, GotField)
       /\ (test1 = test2) <=> IsRef(DeclaredType(S, GotField))

C14_Witness ==
  /\ S = "hana_ref"
  /\ got.ref.kind = "type_c"
  /\ got.idx = 1
  /\ got.ref.type = ConstTy("int")

\* C15: is_visitable<T> is true exactly for the registered types, a call of
\* an entry point on any other type does not compile and never invokes the
\* visitor, and a call that compiles on a registered type runs to its end
C15_VisitableExactlyWhenRegistered ==
  /\ is_visitable(S) <=> S \in Types
  /\ \A k \in 1..Len(calls) :
       /\ S \notin Types => (calls[k].vis = "none" /\ calls[k].count = 0)
       /\ (S \in Types /\ calls[k].vis # "none") => calls[k].count = field_count(S)
  /\ S \notin Types => log = <<>>

\* C16: every invocation of every visitation call that the trait provides is
\* made on the caller's own visitor object, so a visitor that can be neither
\* copied nor moved works and holds all the records after the call
C16_VisitorNeverCopied ==
  \A k \in 1..Len(calls) :
    LET c == calls[k] IN
      (/\ is_visitable(S)
       /\ c.op = "visit_pointers" => HasVisitPointers(TraitOf(S))) =>
        /\ c.vis = "caller"
        /\ c.count = field_count(TraitOf(S))
        /\ c.first + c.count - 1 <= Len(log)
        /\ \A i \in 1..c.count : At(c, i).name = Field(TraitOf(S), i)

C16_Witness ==
  /\ S = "fusion_one"
  /\ status = "ok"
  /\ Len(calls) = 2
  /\ calls[1].op = "apply_visitor"
  /\ calls[1].vcat = "rvalue"
  /\ calls[2].op = "apply_visitor2"
  /\ calls[2].vcat = "lvalue"
  /\ Len(log) = 6

\* C17: a struct body that declares more than max_visitable_members_intrusive
\* VISITABLE fields between the two markers is never accepted
C17_OverLimitRejected ==
  phase = "closed" => Len(members) <= max_visitable_members_intrusive

\* C18: a VISITABLE outside the bracket never compiles: no member is declared
\* before BEGIN_VISITABLES, and none after END_VISITABLES
C18_OutsideBracketRejected ==
  /\ phase = "none" => members = <<>>
  /\ phase # "late"

\* C20: once END_VISITABLES has closed the registration, no later declaration
\* changes the registered list
C20_ListFixedAtClosure ==
  [][(phase \in {"closed", "late"}) => (RegList' = RegList)]_vars

\* two fields registered, and a third declared after the list was closed
C20_Witness ==
  /\ phase = "late"
  /\ TypeListSize(RegList) = 2
  /\ Len(members) = 3

\* C19: VISITABLE_STRUCT(S) with an empty field list compiles, its expansion
\* holds no member-helper invocation, and apply invokes the visitor zero times
C19_EmptyFieldListSupported ==
  (Listed(S) = <<>> /\ phase # "none") =>
    /\ phase = "closed"
    /\ RegList = <<>>
    /\ \A k \in 1..Len(calls) : calls[k].count = 0

-----------------------------------------------------------------------------
(* The strategies against each other                                       *)

\* two registration statements of different types that list the same names
\* with the same declared types in the same order
SameRegistration(s, t) ==
  /\ s # t
  /\ t \notin DOMAIN MalformedSites
  /\ Listed(s) = Listed(t)
  /\ \A i \in 1..Len(Listed(s)) :
       DeclaredType(s, Listed(s)[i]) = DeclaredType(t, Listed(t)[i])

\* what a visitor or a caller can observe of one argument: for a reference the
\* storage it is bound to and the value there, else the name, type tag or accessor
ObservedArg(a) ==
  [kind |-> a.kind,
   at |-> a.loc,
   value |-> IF a.kind = "ref" THEN Deref(a) ELSE 0,
   member |-> a.member,
   type |-> IF a.kind = "ref" THEN NoType ELSE a.type]
Observed(inv) ==
  [name |-> inv.name, args |-> [j \in 1..Len(inv.args) |-> ObservedArg(inv.args[j])]]

\* the recorded call and the recorded query made on the type t instead
ReplayCall(t, c) ==
  IF c.op = "apply_visitor" THEN apply_visitor(t, c.q, c.obj) ELSE visit_types(t)
ReplayQuery(t) ==
  CASE got.ref.kind = "name" -> get_name(t, got.idx, got.q)
    [] got.ref.kind = "type_c" -> type_at(t, got.idx)
    [] got.ref.kind = "accessor" -> get_accessor(t, got.idx, got.q)
    [] got.ref.kind = "ref" -> get(t, got.idx, got.q, got.obj)

-----------------------------------------------------------------------------
(* What the visitation itself does to the instances                        *)

\* an argument handed over by value: an rvalue of a non-const type is moved
\* from and left in its moved-from state
PassByValue(arg, m) ==
  IF arg.kind = "ref" /\ arg.type.ref = "rref" /\ ~arg.type.const
  THEN [m EXCEPT ![arg.loc] = 0]
  ELSE m

\* visitor(name, std::move(struct_instance.NAME)), std::forward<S>(s).*ptr,
\* std::move(fusion::at_c<idx>(s)): the argument is a reference bound to the
\* member; neither the cast nor the binding reads or writes the storage
BindReference(arg, m) == m

\* the storage after the machinery has evaluated the arguments of its
\* invocations, one after the other, for a visitor that only reads
RECURSIVE BindArgs(_, _)
BindArgs(args, m) ==
  IF args = <<>> THEN m ELSE BindArgs(Tail(args), BindReference(Head(args), m))
RECURSIVE MachineryEffect(_, _)
MachineryEffect(invs, m) ==
  IF invs = <<>> THEN m
  ELSE MachineryEffect(Tail(invs), BindArgs(Head(invs).args, m))

FrameOps ==
  {"apply_visitor", "apply_visitor2", "visit_types", "visit_accessors", "visit_pointers"}

FrameInvocations(op, q1, q2) ==
  CASE op = "apply_visitor" -> apply_visitor(S, q1, "a")
    [] op = "apply_visitor2" -> apply_visitor2(S, q1, "a", q2, "b")
    [] op = "visit_types" -> visit_types(S)
    [] op = "visit_accessors" -> visit_accessors(S)
    [] op = "visit_pointers" -> visit_pointers(S)

\* one visitation with a fresh visitor that reads what it is handed and
\* keeps the values
VisitReadOnly(op, q1, q2) ==
  /\ is_visitable(S)
  /\ op = "visit_pointers" => HasVisitPointers(S)
  /\ op # "apply_visitor2" => q2 = "none"
  /\ op \notin InstanceOps => q1 = "none"
  /\ log' = FrameInvocations(op, q1, q2)
  /\ mem' = MachineryEffect(log', mem)
  /\ calls' = <<[op |-> op, q |-> q1, obj |-> "a", q2 |-> q2, obj2 |-> "b",
                 first |-> 1, count |-> Len(log'), before |-> mem]>>
  /\ UNCHANGED <<S, status, phase, ov, members, RegList, cmp, got>>

\* the program writes a member, registered or not, of one of the instances
WriteMember(obj, m, v) ==
  /\ \E k \in 1..Len(Members(S)) : Members(S)[k].name = m
  /\ ~DeclaredType(S, m).const
  /\ mem[Loc(S, obj, m)] # v
  /\ mem' = [mem EXCEPT ![Loc(S, obj, m)] = v]
  /\ log' = <<>>
  /\ calls' = <<>>
  /\ UNCHANGED <<S, status, phase, ov, members, RegList, cmp, got>>

NextFrame ==
  \/ \E op \in FrameOps, q1 \in Quals \cup {"none"}, q2 \in Quals \cup {"none"} :
       VisitReadOnly(op, q1, q2)
  \/ \E m \in MemberNames, v \in Values : WriteMember("a", m, v)
  \/ \E m \in {"a", "d", "v"}, v \in Values : WriteMember("b", m, v)

SpecFrame == Init /\ [][NextFrame]_vars

-----------------------------------------------------------------------------
(* A type that two registration statements name                            *)

\* the qualification an entry point is left with when it does not clean S
KeepCv(q) == IF q = "const" THEN "const" ELSE "none"

\* remove_cv<remove_reference<S>>: the trait is looked up for the bare type
clean_t(q) == "none"

\* does the specialization a statement declares match visitable<cv T, void>:
\* VISITABLE_STRUCT declares the explicit specialization visitable<T, void>,
\* the others are partial specializations whose condition cv T meets as well
Matches(site, cv) == Strategy(site) = "external" => cv = "none"

\* instantiation of traits::visitable<cv T>: an explicit specialization is
\* used if there is one; else the one matching partial specialization; two
\* matching partial specializations, neither more specialized, are ambiguous
TraitLookup(t, cv) ==
  LET ms == {site \in DualTypes[t] : Matches(site, cv)}
      explicit == {site \in ms : Strategy(site) = "external"}
  IN IF explicit # {} THEN CHOOSE site \in explicit : TRUE
     ELSE IF ms = {} THEN "none"
     ELSE IF Cardinality(ms) = 1 THEN CHOOSE site \in ms : TRUE
     ELSE "ambiguous"

DualOps == {"apply_visitor", "visit_types", "field_count", "get_name"}

DualInvocations(op, site, q) ==
  CASE op = "apply_visitor" -> apply_visitor(site, q, "a")
    [] op = "visit_types" -> visit_types(site)
    [] op = "field_count" -> <<>>
    [] op = "get_name" -> <<Invoke(get_name(site, 0, q).member, <<>>)>>

InitDual ==
  /\ S \in DOMAIN DualTypes
  /\ mem = [l \in LocsOf(CHOOSE site \in DualTypes[S] : TRUE) |-> 0]
  /\ log = <<>>
  /\ calls = <<>>
  /\ status = "ok"
  /\ cmp = 0
  /\ got = NoQuery
  /\ RegIdle

\* one entry point called with S qualified q: what it records is the
\* specialization it used, the invocations made and, for field_count, the
\* number returned
DualEntry(op, q) ==
  /\ Len(calls) < MaxCalls
  /\ status = "ok"
  /\ LET site == TraitLookup(S, clean_t(q)) IN
       IF site \in {"none", "ambiguous"}
       THEN /\ status' = "ill_formed"
            /\ calls' = Append(calls, [op |-> op, q |-> q, used |-> site,
                                       first |-> Len(log) + 1, count |-> 0, result |-> -1])
            /\ UNCHANGED log
       ELSE /\ log' = log \o DualInvocations(op, site, q)
            /\ calls' = Append(calls, [op |-> op, q |-> q, used |-> site,
                                       first |-> Len(log) + 1,
                                       count |-> Len(log') - Len(log),
                                       result |-> field_count(site)])
            /\ UNCHANGED status
  /\ UNCHANGED <<S, mem, phase, ov, members, RegList, cmp, got>>

NextDual == \E op \in DualOps, q \in Quals : DualEntry(op, q)

SpecDual == InitDual /\ [][NextDual]_vars

\* C23: for a type that two registration statements name, every entry point
\* call is either rejected at compile time as ambiguous, with no invocation
\* made, or uses one of the two specializations, and then every call of the
\* program uses that same one: the invocations and the field count are those
\* of its field list alone
C23_OneFieldListInUse ==
  \A k \in 1..Len(calls) :
    /\ calls[k].used \in DualTypes[S] \cup {"ambiguous"}
    /\ \A j \in 1..Len(calls) : calls[j].used = calls[k].used
    /\ IF calls[k].used = "ambiguous"
       THEN status = "ill_formed" /\ calls[k].count = 0 /\ log = <<>>
       ELSE /\ calls[k].result = Len(Listed(calls[k].used))
            /\ calls[k].op \in {"apply_visitor", "visit_types"} =>
                 /\ calls[k].count = Len(Listed(calls[k].used))
                 /\ \A i \in 1..calls[k].count :
                      At(calls[k], i).name = Listed(calls[k].used)[i]
            /\ calls[k].op = "get_name" =>
                 At(calls[k], 1).name = Listed(calls[k].used)[1]

C23_Witness ==
  /\ S = "X"
  /\ Len(calls) = 2
  /\ calls[1].op = "apply_visitor"
  /\ calls[1].q = "const"
  /\ calls[2].op = "field_count"
  /\ calls[1].used = "X_external"
  /\ log = <<Invoke("b", <<RefArg(<<"a", "b">>, [base |-> "int", const |-> TRUE, ref |-> "lref"])>>)>>

-----------------------------------------------------------------------------
(* The name of an intrusive struct next to the names of its fields         *)

InitName ==
  /\ S \in {s \in Types : Strategy(s) = "intrusive"}
  /\ mem = [l \in LocsOf(S) |-> 0]
  /\ log = <<>>
  /\ calls = <<>>
  /\ status = "ok"
  /\ cmp = 0
  /\ got = NoQuery
  /\ RegIdle

\* visit_struct::get_name<S>() (form "type") and visit_struct::get_name(s)
\* for an instance s qualified form: both forward to the trait of the bare
\* type; the program keeps the answers
GetStructName(form) ==
  /\ Len(calls) < MaxCalls
  /\ is_visitable(S)
  /\ calls' = Append(calls, [op |-> "get_name", q |-> form, obj |-> "none",
                             first |-> Len(log) + 1, count |-> 0,
                             result |-> IntrusiveGetStructName(TraitOf(S))])
  /\ UNCHANGED <<S, mem, log, status, phase, ov, members, RegList, cmp, got>>

NextName ==
  \/ \E form \in Quals \cup {"type"} : GetStructName(form)
  \/ \E idx \in 0..(MaxFields - 1), q \in Quals : GetName(idx, q)

SpecName == InitName /\ [][NextName]_vars

\* C24: for an intrusive struct every query get_name<S>() and get_name(s)
\* returns the name written as the argument of BEGIN_VISITABLES, and a field
\* name query get_name<i> made before or after it returns the name of field i
C24_StructNameIsBeginArgument ==
  /\ \A k \in 1..Len(calls) :
       /\ calls[k].result.kind = "name"
       /\ calls[k].result.member = Sites[S].begin
  /\ got # NoQuery => got.ref = NameArg(GotField)

C24_Witness ==
  /\ S = "foo"
  /\ Len(calls) = 2
  /\ calls[1].q = "type"
  /\ calls[2].q = "lvalue"
  /\ calls[1].result.member = "foo"
  /\ got.idx = 1
  /\ got.ref.member = "i"

-----------------------------------------------------------------------------
(* Member pointers of an intrusive struct                                  *)

\* visit_struct::get_pointer<idx, S>(): the program keeps the answer
GetPointer(idx) ==
  /\ Len(calls) < MaxCalls
  /\ is_visitable(S)
  /\ idx \in 0..(field_count(S) - 1)
  /\ calls' = Append(calls,
       [op |-> "get_pointer", q |-> "none", obj |-> "none", first |-> Len(log) + 1,
        count |-> 0, idx |-> idx,
        result |-> PtrArg(IntrusiveGetPointer(S, idx),
                          Find(RegisteredMembersList(S), idx).value_type)])
  /\ UNCHANGED <<S, mem, log, status, phase, ov, members, RegList, cmp, got>>

NextPtr ==
  \/ \E idx \in 0..(MaxFields - 1) : GetPointer(idx)
  \/ VisitPointers
  \/ \E idx \in 0..(MaxFields - 1), q \in Quals : Get(idx, q, "a")
  \/ NewVisitor

SpecPtr == InitName /\ [][NextPtr]_vars

\* C25: for an intrusive struct get_pointer<i>() is the pointer to the i-th
\* member declared with VISITABLE, it is the pointer every visit_pointers
\* hands over at its i-th invocation, and get<i>(x) refers to the member of
\* x that this pointer designates
C25_PointerIsIthDeclaredMember ==
  \A k \in 1..Len(calls) :
    calls[k].op = "get_pointer" =>
      /\ calls[k].result.kind = "ptr"
      /\ calls[k].result.member = Members(S)[calls[k].idx + 1].name
      /\ calls[k].result.type = Members(S)[calls[k].idx + 1].type
      /\ \A j \in 1..Len(calls) :
           calls[j].op = "visit_pointers" =>
             At(calls[j], calls[k].idx + 1).args[1] = calls[k].result
      /\ (got # NoQuery /\ got.idx = calls[k].idx) =>
           /\ got.ref.kind = "ref"
           /\ got.ref.loc = <<got.obj, calls[k].result.member>>

C25_Witness ==
  /\ S = "foo"
  /\ Len(calls) = 2
  /\ calls[1].op = "visit_pointers"
  /\ calls[2].op = "get_pointer"
  /\ calls[2].idx = 2
  /\ calls[2].result.member = "f"
  /\ got.idx = 2
  /\ got.q = "rvalue"
  /\ got.ref.loc = <<"a", "f">>

-----------------------------------------------------------------------------
(* The size audit: size_at, align_at, the mock layout, is_fully_visitable  *)

\* sizeof(T) and alignof(T) of the member types, for a build with a 4-byte
\* int and a 2-byte short
SizeOf(t) ==
  CASE t.base = "int" -> 4
    [] t.base = "short" -> 2
    [] t.base = "char" -> 1
    [] t.base = "char[7]" -> 7
    [] t.base = "char[157]" -> 157
AlignOf(t) ==
  CASE t.base = "int" -> 4
    [] t.base = "short" -> 2
    [] OTHER -> 1

RoundUp(n, a) == ((n + a - 1) \div a) * a

\* the size of a class whose subobjects (members, or base classes) have the
\* sizes and alignments fs, in this order: each is placed at the next offset
\* that its alignment divides, the whole is padded to the largest alignment
RECURSIVE LayoutEnd(_, _)
LayoutEnd(fs, end) ==
  IF fs = <<>> THEN end
  ELSE LayoutEnd(Tail(fs), RoundUp(end, Head(fs).align) + Head(fs).size)
RECURSIVE MaxAlign(_)
MaxAlign(fs) ==
  IF fs = <<>> THEN 1
  ELSE IF Head(fs).align > MaxAlign(Tail(fs)) THEN Head(fs).align ELSE MaxAlign(Tail(fs))
LayoutSize(fs) ==
  IF LayoutEnd(fs, 0) = 0 THEN 1 ELSE RoundUp(LayoutEnd(fs, 0), MaxAlign(fs))

\* sizeof(T) of the struct as it is declared
SizeOfStruct(s) ==
  LayoutSize([i \in 1..Len(Members(s)) |->
                [size |-> SizeOf(Members(s)[i].type), align |-> AlignOf(Members(s)[i].type)]])

\* a visitor that overwrites its result at every invocation
size_visitor_last(vis, inv) ==
  [vis EXCEPT !.count = @ + 1, !.result = SizeOf(inv.args[1].type)]

\* size_visitor::operator()(const char *, T S::*): if (idx == count++) result = sizeof(T)
size_visitor(vis, inv) ==
  [vis EXCEPT !.count = @ + 1,
              !.result = IF vis.idx = vis.count THEN SizeOf(inv.args[1].type) ELSE @]
\* align_visitor::operator()
align_visitor(vis, inv) ==
  [vis EXCEPT !.count = @ + 1,
              !.result = IF vis.idx = vis.count THEN AlignOf(inv.args[1].type) ELSE @]

\* a visitor constructed with vis.idx = idx
NewSizeVisitor(kind, idx) == [kind |-> kind, idx |-> idx, count |-> 0, result |-> 0]
VisitorCall(vis, inv) ==
  IF vis.kind = "size" THEN size_visitor(vis, inv) ELSE align_visitor(vis, inv)

\* visit_struct::visit_pointers<T>(vis): the visitor after all the invocations
RunVisitor(vis, invs) ==
  LET after[i \in 0..Len(invs)] ==
        IF i = 0 THEN vis ELSE VisitorCall(after[i - 1], invs[i])
  IN after[Len(invs)]

size_at(s, idx) == RunVisitor(NewSizeVisitor("size", idx), visit_pointers(s)).result
align_at(s, idx) == RunVisitor(NewSizeVisitor("align", idx), visit_pointers(s)).result

\* storage of the given size with alignment 1
mock_field_unaligned(size, align) == [size |-> size, align |-> 1]

\* std::aligned_storage<s, a>::type: alignment a, size s padded to a multiple of a
mock_field_t(size, align) == [size |-> RoundUp(size, align), align |-> align]

\* mock_maker<T>::size: sizeof of a class with one base per registered field,
\* each holding a mock_field_t of that field's size and alignment
mock_maker(s) ==
  LayoutSize([i \in 1..field_count(s) |->
                mock_field_t(size_at(s, i - 1), align_at(s, i - 1))])

is_fully_visitable(s) == SizeOfStruct(s) = mock_maker(s)

InitLayout ==
  /\ S \in DOMAIN LayoutSites
  /\ mem = [l \in LocsOf(S) |-> 0]
  /\ log = <<>>
  /\ calls = <<>>
  /\ status = "ok"
  /\ cmp = "unknown"
  /\ got = NoQuery
  /\ RegIdle

\* size_at<T, idx>() or align_at<T, idx>() begins: a visitor is constructed
StartAt(kind, idx) ==
  /\ got' = NewSizeVisitor(kind, idx)
  /\ log' = <<>>
  /\ UNCHANGED <<S, mem, calls, status, phase, ov, members, RegList, cmp>>

\* visit_pointers makes its next invocation on that visitor
VisitorStep ==
  /\ got # NoQuery
  /\ Len(log) < field_count(S)
  /\ log' = Append(log, visit_pointers(S)[Len(log) + 1])
  /\ got' = VisitorCall(got, visit_pointers(S)[Len(log) + 1])
  /\ UNCHANGED <<S, mem, calls, status, phase, ov, members, RegList, cmp>>

\* static_assert on ext::is_fully_visitable<T>()
Audit ==
  /\ cmp = "unknown"
  /\ cmp' = IF is_fully_visitable(S) THEN "fully" ELSE "not_fully"
  /\ UNCHANGED <<S, mem, log, calls, status, phase, ov, members, RegList, got>>

NextLayout ==
  \/ \E kind \in {"size", "align"}, idx \in 0..(MaxFields + 1) : StartAt(kind, idx)
  \/ VisitorStep
  \/ Audit

SpecLayout == InitLayout /\ [][NextLayout]_vars

\* the members of S in the order of declaration, by name
DeclaredNames(s) == [i \in 1..Len(Members(s)) |-> Members(s)[i].name]
\* sizes and alignments of the registered fields, in registration order
RegisteredLayout(s) ==
  [i \in 1..Len(Listed(s)) |->
     [size |-> SizeOf(DeclaredType(s, Listed(s)[i])),
      align |-> AlignOf(DeclaredType(s, Listed(s)[i]))]]

\* C26 as stated: the audit is true when every member is registered in
\* declaration order and false whenever the registration leaves a member out
C26_AuditDetectsEveryOmission ==
  cmp # "unknown" =>
    /\ Listed(S) = DeclaredNames(S) => cmp = "fully"
    /\ Len(Listed(S)) < Len(Members(S)) => cmp = "not_fully"

\* C26 amended: the audit is true exactly when sizeof(T) equals the size of
\* the layout of the registered fields alone; that is so when every member
\* is registered in declaration order, and also when the members left out
\* fit into the padding of the registered ones
C26_AuditComparesSizes ==
  cmp # "unknown" =>
    /\ (cmp = "fully") = (SizeOfStruct(S) = LayoutSize(RegisteredLayout(S)))
    /\ Listed(S) = DeclaredNames(S) => cmp = "fully"
    /\ S = "fv_bar" => cmp = "not_fully"
    /\ S = "fv_pad" => cmp = "fully"

C26_Witness ==
  /\ S = "fv_pad"
  /\ Len(Listed(S)) < Len(Members(S))
  /\ cmp = "fully"

\* C30: while visit_pointers runs, the visitor's counter is the number of
\* invocations made, and its result is sizeof (alignof) of the field at
\* position idx once that invocation has been made and 0 before; at the end
\* the result is that of the idx-th registered field for idx < field_count
\* and 0 for idx >= field_count, which is what size_at and align_at return
C30_SizeAtIsSizeOfIthField ==
  got # NoQuery =>
    /\ got.count = Len(log)
    /\ got.result =
         IF got.idx < Len(log)
         THEN IF got.kind = "size" THEN SizeOf(DeclaredType(S, Field(S, got.idx + 1)))
              ELSE AlignOf(DeclaredType(S, Field(S, got.idx + 1)))
         ELSE 0
    /\ Len(log) = field_count(S) =>
         got.result = IF got.kind = "size" THEN size_at(S, got.idx) ELSE align_at(S, got.idx)

C30_Witness ==
  /\ S = "fv_baz"
  /\ got # NoQuery
  /\ got.kind = "size"
  /\ got.idx = 1
  /\ got.count = 4
  /\ got.result = 7

-----------------------------------------------------------------------------
(* The overloads the intrusive macros have declared                        *)

\* the records of the members declared so far, in declaration order
DeclaredRecords ==
  [i \in 1..Len(members) |-> MemberRecord(members[i].type, members[i].name)]

\* C27: after BEGIN_VISITABLES and k <= 100 VISITABLE declarations the
\* overloads of Visit_Struct_Get_Visitables__ are those for Rank<0> .. Rank<k>,
\* the overload for Rank<r> returns the first r records, the lookup with
\* Rank<100> selects the one for Rank<k>, and its list is the k records in
\* declaration order: each VISITABLE has appended one and kept the others
C27_RankLookupGivesDeclaredList ==
  (phase \in {"open", "closed", "late"} /\ Len(members) <= max_visitable_members_intrusive) =>
    /\ DOMAIN ov = 0..Len(members)
    /\ ViableRanks(ov) # {}
    /\ MostDerived(ViableRanks(ov)) = Len(members)
    /\ \A r \in ViableRanks(ov) \ {Len(members)} : r < Len(members)
    /\ GetRegisteredMembers(ov) = DeclaredRecords
    /\ \A r \in DOMAIN ov : ov[r] = SubSeq(DeclaredRecords, 1, r)

C27_Witness ==
  /\ phase = "open"
  /\ Len(members) = max_visitable_members_intrusive
  /\ DOMAIN ov = 0..max_visitable_members_intrusive
  /\ TypeListSize(GetRegisteredMembers(ov)) = max_visitable_members_intrusive

-----------------------------------------------------------------------------
(* An intrusive struct without fields                                      *)

\* C28: the intrusive struct with no VISITABLE between BEGIN_VISITABLES and
\* END_VISITABLES is visitable with field_count 0, every visitation of it
\* (one instance, two, pointers, accessors, types) compiles and invokes the
\* visitor zero times, and for every number n of fields the array that
\* sequences the calls has n + 1 elements, never zero
C28_EmptyIntrusiveStructVisitable ==
  /\ \A n \in 0..MaxFields :
       Len(DummyInitializers([i \in 1..n |-> i])) = n + 1
  /\ (S \in Types /\ Strategy(S) = "intrusive") =>
       /\ Len(DummyInitializers(RegisteredMembersList(S))) = field_count(S) + 1
       /\ StructureHelperWellFormed(RegisteredMembersList(S))
  /\ S = "intrusive_empty" =>
       /\ is_visitable(S)
       /\ field_count(S) = 0
       /\ status = "ok"
       /\ log = <<>>
       /\ \A k \in 1..Len(calls) : calls[k].count = 0 /\ calls[k].vis = "caller"

C28_Witness ==
  /\ S = "intrusive_empty"
  /\ status = "ok"
  /\ Len(calls) = 2
  /\ calls[1].op = "apply_visitor2"
  /\ calls[2].op = "visit_pointers"
  /\ log = <<>>

-----------------------------------------------------------------------------
(* VISIT_STRUCT_PP_MAP on argument lists of every length                   *)

\* the k-th argument is the identifier spelled like the number k
ArgList(n) == [i \in 1..n |-> ToString(i)]

NoCall == [macro |-> "none", args |-> <<>>]

InitMap ==
  /\ S = "none"
  /\ mem = <<>>
  /\ log = <<>>
  /\ calls = NoCall
  /\ status = "ok"
  /\ cmp = 0
  /\ got = NoQuery
  /\ phase = "none"
  /\ ov = <<>>
  /\ \E n \in 1..MaxArgs : members = ArgList(n)
  /\ RegList = <<>>

\* VISIT_STRUCT_PP_MAP(f, x1, ..., xn): the call of VISIT_STRUCT_PP_MAP1 with
\* the end marker appended, inside VISIT_STRUCT_PP_MAP_EVAL
StartMap ==
  /\ phase = "none"
  /\ phase' = "scanning"
  /\ calls' = [macro |-> "VISIT_STRUCT_PP_MAP1", args |-> members \o <<"()", "0">>]
  /\ cmp' = PP_MAP_SCANS
  /\ RegList' = <<>>
  /\ UNCHANGED <<S, mem, log, status, ov, members, got>>

\* one scan of the text: the pending call is expanded
ScanMap ==
  /\ phase = "scanning"
  /\ calls.macro # "none"
  /\ cmp > 0
  /\ LET e == PP_MAP_SCAN(calls.macro, "f", calls.args)
     IN  /\ RegList' = RegList \o e.out
         /\ calls' = [macro |-> e.macro, args |-> e.args]
  /\ cmp' = cmp - 1
  /\ UNCHANGED <<S, mem, log, status, phase, ov, members, got>>

\* no call is pending or no scan is left: the text is final
FinishMap ==
  /\ phase = "scanning"
  /\ calls.macro = "none" \/ cmp = 0
  /\ phase' = "expanded"
  /\ RegList' = RegList \o PP_MAP_LEFTOVER(calls.macro, calls.args)
  /\ calls' = NoCall
  /\ UNCHANGED <<S, mem, log, status, ov, members, cmp, got>>

NextMap == StartMap \/ ScanMap \/ FinishMap

SpecMap == InitMap /\ [][NextMap]_vars

\* C29: for n = 1 .. 365 arguments the expansion is f(x1) ... f(xn), one
\* invocation per argument in argument order, and no macro call is left
\* unexpanded
C29_MapExpandsEveryArgument ==
  (phase = "expanded" /\ Len(members) <= 365) =>
    RegList = [i \in 1..Len(members) |-> [macro |-> "f", arg |-> members[i]]]

====
